---------------------------- MODULE Spec2Model ----------------------------
(***************************************************************************)
(* A model of the FluidSolver network solver (src/src/solver.js) and of    *)
(* the fluid-property functions it imports (src/src/constants.js).         *)
(*                                                                         *)
(* The program computes in IEEE doubles; TLC computes in 32-bit integers.  *)
(* Every quantity is therefore held in fixed point, in these units:        *)
(*   pressure      1 Pa                                                    *)
(*   temperature   0.01 K             (293.15 K is 29315)                  *)
(*   dimensionless ratios and powers  1/FX    (1.0 is FX)                  *)
(*   Cd, beta      0.01               (0.62 is 62)                         *)
(*   K factors     1/KScale                                                *)
(*   lengths       one length unit for diameter and length alike           *)
(*   area, CdA     1 (length unit)^2                                       *)
(*   density       one density unit, the same for liquids and gases        *)
(*   resistance R  RScale * K * rho / (2 A^2) units                        *)
(*   flow Q        FlowScale * sqrt(dP / R)  units                         *)
(*   mass flow     flow unit * density unit                                *)
(* Divisions truncate toward zero and square roots round down, so a value  *)
(* of the model is the program's value up to rounding in the last digit.   *)
(* A pressure correction below one unit is no correction here: where the  *)
(* program creeps toward a pressure (a dead-end junction) the model may    *)
(* stay one unit short of it and go on iterating.                          *)
(* Infinity is the largest value of the model and absorbs addition.        *)
(***************************************************************************)
EXTENDS Integers, Sequences, FiniteSets

\* ------------------------------------------------------------ fixed point

FX == 10^4
KScale == 10^2
RScale == 10^3
FlowScale == 10^1
Infinity == 2 * 10^9

Abs(x) == IF x < 0 THEN -x ELSE x
Max(a, b) == IF a >= b THEN a ELSE b
Min(a, b) == IF a <= b THEN a ELSE b
\* Sign that loses the direction
Sign_Unsigned(x) == IF x = 0 THEN 0 ELSE 1

Sign(x) == IF x > 0 THEN 1 ELSE IF x < 0 THEN -1 ELSE 0

\* a / b, truncated toward zero (b > 0)
Div(a, b) == IF a >= 0 THEN a \div b ELSE -((-a) \div b)

RECURSIVE SqrtSearch(_, _, _)
SqrtSearch(n, lo, hi) ==
    IF lo >= hi THEN lo
    ELSE LET mid == (lo + hi + 1) \div 2
         IN  IF mid * mid <= n THEN SqrtSearch(n, mid, hi)
                               ELSE SqrtSearch(n, lo, mid - 1)

\* Math.sqrt, rounded down (0 <= n < 2^31)
Sqrt(n) == SqrtSearch(n, 0, 46340)

\* FlowScale * Math.sqrt(num / den), rounded down
SqrtRatio(num, den) ==
    Sqrt((num \div den) * FlowScale * FlowScale
         + ((num % den) * FlowScale * FlowScale) \div den)

MulFx(a, b) == (a * b) \div FX

RECURSIVE PowInt(_, _)
PowInt(x, k) == IF k = 0 THEN FX ELSE MulFx(x, PowInt(x, k - 1))

\* x^(num/den) for 0 <= num/den < 1, by the binary expansion of the
\* exponent over repeated square roots, to PowBits binary digits
PowBits == 10
RECURSIVE PowFrac(_, _, _, _)
PowFrac(x, num, den, bits) ==
    IF bits = 0 \/ num = 0 THEN FX
    ELSE LET s == Sqrt(x * FX)
         IN  IF 2 * num >= den
             THEN MulFx(s, PowFrac(s, 2 * num - den, den, bits - 1))
             ELSE PowFrac(s, 2 * num, den, bits - 1)

\* Math.pow(x, en/ed) on fixed-point x, en/ed >= 0
Pow(x, en, ed) == MulFx(PowInt(x, en \div ed), PowFrac(x, en % ed, ed, PowBits))

\* ------------------------------------------------- constants.js: fluids

\* Universal gas constant, 8.314462 J/(mol K), in 1/1000
R_UNIVERSAL == 8314
DensityDiv == 10^3

\* fluid.gamma || 1.4, as the fraction 7/5
DefaultGammaNum == 7
DefaultGammaDen == 5
\* fluid.temperature || 293.15
DefaultTemperature == 29315

GammaNum(fluid) == IF fluid.gammaNum = 0 THEN DefaultGammaNum ELSE fluid.gammaNum
GammaDen(fluid) == IF fluid.gammaNum = 0 THEN DefaultGammaDen ELSE fluid.gammaDen

\* (2/(gamma+1))^(gamma/(gamma-1))
criticalPressureRatio(gn, gd) == Pow((2 * gd * FX) \div (gn + gd), gn, gn - gd)

\* T1 * (P2/P1)^((gamma-1)/gamma), or T1 on a non-positive argument
isentropicTemperature(T1, P1, P2, gn, gd) ==
    IF P1 <= 0 \/ P2 <= 0 \/ T1 <= 0 THEN T1
    ELSE (T1 * Pow((P2 * FX) \div P1, gn - gd, gn)) \div FX

\* P M / (R T), or 0 on a non-positive argument
gasDensityAtPT(P, T, M) ==
    IF T <= 0 \/ P <= 0 THEN 0
    ELSE (P * M) \div ((R_UNIVERSAL * T) \div DensityDiv)

\* muRef (T/Tref)^1.5 (Tref + S) / (T + S)
sutherlandViscosity(T, muRef, Tref, S) ==
    (MulFx(muRef, Pow((T * FX) \div Tref, 3, 2)) * (Tref + S)) \div (T + S)

\* The fluid at a node: for a liquid the base fluid with the local pressure
\* and temperature written in, for a gas also the local density and viscosity
getLocalFluidProperties(baseFluid, localP, localT) ==
    IF baseFluid.type /= "gas"
    THEN [baseFluid EXCEPT !.pressure = localP, !.temperature = localT]
    ELSE [baseFluid EXCEPT
            !.density = gasDensityAtPT(localP, localT, baseFluid.molecularWeight),
            !.viscosity = sutherlandViscosity(localT, baseFluid.viscosity,
                                              baseFluid.Tref, baseFluid.sutherlandS),
            !.pressure = localP,
            !.temperature = localT]

\* ------------------------------------------- solver.js: restriction flow

\* Cd * area, Cd in 1/100
CdTimesArea(Cd, area) == (Cd * area) \div 100

incompressibleMassFlow(Cd, area, P1, P2, fluid) ==
    LET dP == P1 - P2
    IN  IF dP <= 0 THEN 0
        ELSE CdTimesArea(Cd, area) * Sqrt(2 * fluid.density * dP) * FlowScale

chokedLiquidMassFlow(Cd, area, P1, fluid) ==
    LET effectiveDP == P1 - fluid.vaporPressure
    IN  IF effectiveDP <= 0 THEN 0
        ELSE CdTimesArea(Cd, area) * Sqrt(2 * fluid.density * effectiveDP) * FlowScale

compressibleMassFlowUnchoked(Cd, area, P1, P2, fluid) ==
    LET gn == GammaNum(fluid)
        gd == GammaDen(fluid)
        pressureRatio == (P2 * FX) \div P1
        flowFunction == Pow(pressureRatio, 2 * gd, gn) - Pow(pressureRatio, gn + gd, gn)
        coefficient == ((2 * fluid.density * P1) \div (gn - gd)) * gn
    IN  IF pressureRatio >= FX THEN 0
        ELSE CdTimesArea(Cd, area) * Sqrt((coefficient \div FX) * flowFunction) * FlowScale

chokedGasMassFlow(Cd, area, P1, fluid) ==
    LET gn == GammaNum(fluid)
        gd == GammaDen(fluid)
        chokedCoeff == Pow((2 * gd * FX) \div (gn + gd), gn + gd, 2 * (gn - gd))
    IN  CdTimesArea(Cd, area)
          * MulFx(Sqrt((gn * fluid.density * P1) \div gd), chokedCoeff) * FlowScale

\* restrictionMassFlow with the choked flows computed from P2 like the unchoked ones
restrictionMassFlow_Uncapped(Cd, area, P1, P2, fluid) ==
    IF P1 <= P2
    THEN [massFlow |-> 0, isChoked |-> FALSE, flowRegime |-> "no_flow"]
    ELSE IF fluid.type = "gas"
    THEN IF (P2 * FX) \div P1 <= criticalPressureRatio(GammaNum(fluid), GammaDen(fluid))
         THEN [massFlow |-> compressibleMassFlowUnchoked(Cd, area, P1, P2, fluid),
               isChoked |-> TRUE, flowRegime |-> "choked_gas"]
         ELSE [massFlow |-> compressibleMassFlowUnchoked(Cd, area, P1, P2, fluid),
               isChoked |-> FALSE, flowRegime |-> "subsonic_gas"]
    ELSE IF P2 <= fluid.vaporPressure
         THEN [massFlow |-> incompressibleMassFlow(Cd, area, P1, P2, fluid),
               isChoked |-> TRUE, flowRegime |-> "choked_liquid"]
         ELSE [massFlow |-> incompressibleMassFlow(Cd, area, P1, P2, fluid),
               isChoked |-> FALSE, flowRegime |-> "incompressible"]

\* restrictionMassFlow with the no-flow test P1 < P2
restrictionMassFlow_StrictNoFlow(Cd, area, P1, P2, fluid) ==
    IF P1 < P2
    THEN [massFlow |-> 0, isChoked |-> FALSE, flowRegime |-> "no_flow"]
    ELSE IF fluid.type = "gas"
    THEN IF (P2 * FX) \div P1 <= criticalPressureRatio(GammaNum(fluid), GammaDen(fluid))
         THEN [massFlow |-> chokedGasMassFlow(Cd, area, P1, fluid),
               isChoked |-> TRUE, flowRegime |-> "choked_gas"]
         ELSE [massFlow |-> compressibleMassFlowUnchoked(Cd, area, P1, P2, fluid),
               isChoked |-> FALSE, flowRegime |-> "subsonic_gas"]
    ELSE IF P2 <= fluid.vaporPressure
         THEN [massFlow |-> chokedLiquidMassFlow(Cd, area, P1, fluid),
               isChoked |-> TRUE, flowRegime |-> "choked_liquid"]
         ELSE [massFlow |-> incompressibleMassFlow(Cd, area, P1, P2, fluid),
               isChoked |-> FALSE, flowRegime |-> "incompressible"]

\* restrictionMassFlow with the choke tests pressureRatio < criticalRatio and P2 < Pv
restrictionMassFlow_StrictChoke(Cd, area, P1, P2, fluid) ==
    IF P1 <= P2
    THEN [massFlow |-> 0, isChoked |-> FALSE, flowRegime |-> "no_flow"]
    ELSE IF fluid.type = "gas"
    THEN IF (P2 * FX) \div P1 < criticalPressureRatio(GammaNum(fluid), GammaDen(fluid))
         THEN [massFlow |-> chokedGasMassFlow(Cd, area, P1, fluid),
               isChoked |-> TRUE, flowRegime |-> "choked_gas"]
         ELSE [massFlow |-> compressibleMassFlowUnchoked(Cd, area, P1, P2, fluid),
               isChoked |-> FALSE, flowRegime |-> "subsonic_gas"]
    ELSE IF P2 < fluid.vaporPressure
         THEN [massFlow |-> chokedLiquidMassFlow(Cd, area, P1, fluid),
               isChoked |-> TRUE, flowRegime |-> "choked_liquid"]
         ELSE [massFlow |-> incompressibleMassFlow(Cd, area, P1, P2, fluid),
               isChoked |-> FALSE, flowRegime |-> "incompressible"]

restrictionMassFlow(Cd, area, P1, P2, fluid) ==
    IF P1 <= P2
    THEN [massFlow |-> 0, isChoked |-> FALSE, flowRegime |-> "no_flow"]
    ELSE IF fluid.type = "gas"
    THEN IF (P2 * FX) \div P1 <= criticalPressureRatio(GammaNum(fluid), GammaDen(fluid))
         THEN [massFlow |-> chokedGasMassFlow(Cd, area, P1, fluid),
               isChoked |-> TRUE, flowRegime |-> "choked_gas"]
         ELSE [massFlow |-> compressibleMassFlowUnchoked(Cd, area, P1, P2, fluid),
               isChoked |-> FALSE, flowRegime |-> "subsonic_gas"]
    ELSE IF P2 <= fluid.vaporPressure
         THEN [massFlow |-> chokedLiquidMassFlow(Cd, area, P1, fluid),
               isChoked |-> TRUE, flowRegime |-> "choked_liquid"]
         ELSE [massFlow |-> incompressibleMassFlow(Cd, area, P1, P2, fluid),
               isChoked |-> FALSE, flowRegime |-> "incompressible"]

\* ------------------------------------------------ solver.js: resistance

\* valve.Cd || 0.62, orifice.Cd || 0.62
DefaultCd == 62
\* Initial estimate f = 0.02 of the friction factor, in 1/100
FrictionF == 2
\* pi as 355/113
PiNum == 355
PiDen == 113

\* Math.PI * (d/2)^2
CircleArea(d) == (PiNum * d * d) \div (PiDen * 4)

\* Infinity absorbs addition
AddR(a, b) == IF a >= Infinity \/ b >= Infinity THEN Infinity ELSE a + b

\* a * b / c without leaving 32 bits (c * b and the result fit)
MulDiv(a, b, c) == (a \div c) * b + ((a % c) * b) \div c

\* K rho / (2 A^2)
ResistanceOfK(K, fluid, area) == MulDiv(K * fluid.density, RScale, 2 * area * area)

\* rho / (2 CdA^2)
ResistanceOfCdA(CdA, fluid) == (KScale * fluid.density * RScale) \div (2 * CdA * CdA)

valveResistanceFromCdA(Cd, area, fluid) ==
    IF Cd <= 0 \/ area <= 0 \/ CdTimesArea(Cd, area) = 0 THEN Infinity
    ELSE ResistanceOfCdA(CdTimesArea(Cd, area), fluid)

valveResistanceFromCdAProduct(CdA, fluid) ==
    IF CdA <= 0 THEN Infinity ELSE ResistanceOfCdA(CdA, fluid)

\* SG / cvSI^2 with SG = rho/998 and cvSI = Cv * 7.599e-7; Cv in 1/10,
\* cvSI in 1/100 of the area unit
WaterDensity == 998
CvToSI == 7599
valveResistanceFromCv(Cv, fluid) ==
    LET cvSI == (Cv * CvToSI) \div 10^3
    IN  IF Cv <= 0 \/ cvSI = 0 THEN Infinity
        ELSE (KScale * fluid.density * RScale) \div ((WaterDensity * cvSI * cvSI) \div 10^4)

\* K = (1 - beta^4) / (Cd^2 beta^4), beta in 1/100
OrificeKOfBeta(beta, Cd) ==
    LET beta4 == (beta * beta * beta * beta) \div 10^4
    IN  IF beta4 = 0 THEN Infinity
        ELSE ((10^4 - beta4) * KScale * 100) \div ((Cd * Cd * beta4) \div 100)

orificeKFromDiameter(orificeDiameter, pipeDiameter, Cd) ==
    IF orificeDiameter <= 0 \/ orificeDiameter >= pipeDiameter THEN 0
    ELSE OrificeKOfBeta((orificeDiameter * 100) \div pipeDiameter, Cd)

orificeK(orificeRatio, Cd) ==
    IF orificeRatio <= 0 \/ orificeRatio >= 100 THEN 0
    ELSE OrificeKOfBeta(orificeRatio, Cd)

\* null
NullCdA == -1
\* CdA_m2 = Cv * 2.6e-5: area units per unit of Cv
CvToCdA == 26

\* A pipe without a valve carries valve.present = FALSE; a missing or zero
\* field of a valve or orifice is 0 (both are falsy in the program)
getValveCdA(valve, pipeDiameter, pipeArea) ==
    IF ~valve.present \/ valve.specMode = "" \/ valve.specMode = "none" THEN NullCdA
    ELSE IF valve.specMode = "cd_diameter"
    THEN CdTimesArea(IF valve.Cd = 0 THEN DefaultCd ELSE valve.Cd,
                     CircleArea(IF valve.diameter = 0 THEN pipeDiameter ELSE valve.diameter))
    ELSE IF valve.specMode = "cd_area"
    THEN CdTimesArea(IF valve.Cd = 0 THEN DefaultCd ELSE valve.Cd,
                     IF valve.area = 0 THEN pipeArea ELSE valve.area)
    ELSE IF valve.specMode = "cda" THEN valve.CdA
    ELSE IF valve.specMode = "cv" THEN (valve.Cv * CvToCdA) \div 10
    ELSE NullCdA

pipeResistance(pipe, fluid) ==
    LET pipeArea == CircleArea(pipe.diameter)
        K_friction == (FrictionF * pipe.length * KScale) \div (100 * pipe.diameter)
        R_friction == ResistanceOfK(K_friction, fluid, pipeArea)
        valve == pipe.valve
        R_valve ==
            IF valve.present /\ valve.specMode /= "" /\ valve.specMode /= "none"
            THEN IF valve.specMode = "cd_diameter"
                 THEN valveResistanceFromCdA(
                          IF valve.Cd = 0 THEN DefaultCd ELSE valve.Cd,
                          CircleArea(IF valve.diameter = 0 THEN pipe.diameter
                                                           ELSE valve.diameter),
                          fluid)
                 ELSE IF valve.specMode = "cd_area"
                 THEN valveResistanceFromCdA(
                          IF valve.Cd = 0 THEN DefaultCd ELSE valve.Cd,
                          IF valve.area = 0 THEN pipeArea ELSE valve.area,
                          fluid)
                 ELSE IF valve.specMode = "cda"
                 THEN valveResistanceFromCdAProduct(valve.CdA, fluid)
                 ELSE IF valve.specMode = "cv"
                 THEN valveResistanceFromCv(valve.Cv, fluid)
                 ELSE 0
            ELSE IF valve.present /\ valve.Cv > 0
            THEN valveResistanceFromCv(valve.Cv, fluid)
            ELSE 0
        orifice == pipe.orifice
        K_orifice ==
            IF ~orifice.present THEN 0
            ELSE IF orifice.diameter > 0
            THEN orificeKFromDiameter(orifice.diameter, pipe.diameter,
                                      IF orifice.Cd = 0 THEN DefaultCd ELSE orifice.Cd)
            ELSE IF orifice.ratio > 0 /\ orifice.ratio < 100
            THEN orificeK(orifice.ratio, IF orifice.Cd = 0 THEN DefaultCd ELSE orifice.Cd)
            ELSE 0
        R_orifice == IF K_orifice >= Infinity THEN Infinity
                     ELSE ResistanceOfK(K_orifice, fluid, pipeArea)
    IN  AddR(AddR(R_friction, R_valve), R_orifice)

\* ---------------------------------------------- solver.js: solveNetwork

VARIABLES
    nodes,          \* argument: sequence of [id, type, pressure]
    pipes,          \* argument: sequence of [id, fromNode, toNode, diameter, length, valve, orifice]
    fluid,          \* argument: the fluid record
    pc,             \* "start", "iterate", "build", "done" or "thrown"
    iter,           \* iterations of the loop completed
    pressures,      \* node id -> pressure
    temperatures,   \* node id -> temperature
    localFluids,    \* node id -> fluid at the node, empty before the first iteration
    flowRates,      \* pipe id -> Q
    chokedStatus,   \* pipe id -> [isChoked, flowRegime]
    maxError,       \* the residual of the last iteration
    converged,
    result,         \* the returned object, [pending |-> TRUE] until the return
    returned,       \* the caller's record: arguments -> the result first returned for them
    call,           \* the arguments of a direct call of restrictionMassFlow
    ret,            \* what that call returned, [pending |-> TRUE] before it
    app             \* the state of the editor (App.jsx) that calls solveNetwork

vars == <<nodes, pipes, fluid, pc, iter, pressures, temperatures, localFluids,
          flowRates, chokedStatus, maxError, converged, result, returned, call, ret, app>>

\* What solveNetwork has no access to
outside == <<returned, call, ret, app>>

maxIterations == 150
\* 1e-6, in flow units
tolerance == 2
\* Math.max(100, ...)
PressureFloor == 100
\* R + 1e-10: the smallest positive resistance
ResistanceEps == 1
\* absQ > 1e-10 and Math.abs(dFlowdP) > 1e-10: the smallest positive values
FlowEps == 0
SensitivityEps == 0
\* dFlowdP += 1e6, saturated: large enough that the correction it allows
\* is below one pressure unit for every flow sum of the model
ZeroFlowSensitivity == 500000000
\* dFlowdP is held in 1/SensScale; 1/(2 R |Q|) is SensNum / (2 R |Q| / SensDen)
SensNum == 10^9
SensDen == 10^2
SensScale == (SensNum \div (FlowScale * FlowScale * RScale * KScale)) * SensDen

SeqToSet(s) == {s[i] : i \in 1..Len(s)}
NodeIds == {n.id : n \in SeqToSet(nodes)}
PipeIds == {p.id : p \in SeqToSet(pipes)}
NodeById(id) == CHOOSE n \in SeqToSet(nodes) : n.id = id
PipeById(id) == CHOOSE p \in SeqToSet(pipes) : p.id = id

boundaryNodes == SelectSeq(nodes, LAMBDA n : n.type = "boundary")
internalNodes == SelectSeq(nodes, LAMBDA n : n.type = "junction")

RECURSIVE SumPressure(_)
SumPressure(ns) == IF ns = <<>> THEN 0 ELSE Head(ns).pressure + SumPressure(Tail(ns))

RECURSIVE MaxPressure(_, _)
MaxPressure(ns, best) ==
    IF ns = <<>> THEN best
    ELSE MaxPressure(Tail(ns), IF Head(ns).pressure > best THEN Head(ns).pressure ELSE best)

inletPressure == MaxPressure(boundaryNodes, boundaryNodes[1].pressure)
inletTemperature == IF fluid.temperature = 0 THEN DefaultTemperature ELSE fluid.temperature
isCompressible == fluid.type = "gas"
avgPressure == SumPressure(boundaryNodes) \div Len(boundaryNodes)

\* nodeConnections[id]: the pipes at a node, each with its direction
nodeConnections(id) ==
    {<<p.id, 1>> : p \in {q \in SeqToSet(pipes) : q.fromNode = id}}
      \cup {<<p.id, -1>> : p \in {q \in SeqToSet(pipes) : q.toNode = id}}

\* localFluids[id] || fluid
LocalFluidAt(lf, id) == IF id \in DOMAIN lf THEN lf[id] ELSE fluid

\* InitialPressure that starts a junction from the pressure an earlier call left
InitialPressure_WarmStart(node) ==
    IF node.type = "boundary" THEN node.pressure
    ELSE IF node.id \in DOMAIN pressures THEN pressures[node.id]
    ELSE avgPressure

InitialPressure(node) == IF node.type = "boundary" THEN node.pressure ELSE avgPressure

\* InitialTemperature that cools every boundary node, whatever the fluid
InitialTemperature_AlwaysIsentropic(node) ==
    IF node.type = "boundary"
    THEN isentropicTemperature(inletTemperature, inletPressure, node.pressure,
                               GammaNum(fluid), GammaDen(fluid))
    ELSE inletTemperature

InitialTemperature(node) ==
    IF node.type = "boundary" /\ isCompressible
    THEN isentropicTemperature(inletTemperature, inletPressure, node.pressure,
                               GammaNum(fluid), GammaDen(fluid))
    ELSE inletTemperature

\* TooSmall without the test of the pipes
TooSmall_NodesOnly == Len(nodes) < 2

\* The arguments fail validation
TooSmall == Len(nodes) < 2 \/ Len(pipes) = 0
NoBoundary == Len(boundaryNodes) < 1

ReturnTooSmall ==
    /\ pc = "start"
    /\ TooSmall
    /\ result' = [success |-> FALSE, error |-> "Need at least 2 nodes and 1 pipe"]
    /\ pc' = "done"
    /\ UNCHANGED <<nodes, pipes, fluid, iter, pressures, temperatures, localFluids,
                   flowRates, chokedStatus, maxError, converged, outside>>

ReturnNoBoundary ==
    /\ pc = "start"
    /\ ~TooSmall
    /\ NoBoundary
    /\ result' = [success |-> FALSE,
                  error |-> "Need at least 1 boundary node with fixed pressure"]
    /\ pc' = "done"
    /\ UNCHANGED <<nodes, pipes, fluid, iter, pressures, temperatures, localFluids,
                   flowRates, chokedStatus, maxError, converged, outside>>

\* A pipe names a node that is not among the nodes: nodeConnections has no
\* entry for it
Dangling ==
    \E i \in 1..Len(pipes) : pipes[i].fromNode \notin NodeIds \/ pipes[i].toNode \notin NodeIds

\* nodeConnections[pipe.fromNode].push on an entry that is undefined: the
\* call ends with a TypeError and returns nothing
ThrowTypeError ==
    /\ pc = "start"
    /\ ~TooSmall
    /\ ~NoBoundary
    /\ Dangling
    /\ pc' = "thrown"
    /\ UNCHANGED <<nodes, pipes, fluid, iter, pressures, temperatures, localFluids,
                   flowRates, chokedStatus, maxError, converged, result, outside>>

Initialize ==
    /\ pc = "start"
    /\ ~TooSmall
    /\ ~NoBoundary
    /\ ~Dangling
    /\ pressures' = [id \in NodeIds |-> InitialPressure(NodeById(id))]
    /\ temperatures' = [id \in NodeIds |-> InitialTemperature(NodeById(id))]
    /\ flowRates' = [id \in PipeIds |-> 0]
    /\ chokedStatus' = [id \in PipeIds |-> [isChoked |-> FALSE, flowRegime |-> "unknown"]]
    /\ localFluids' = [id \in {} |-> fluid]
    /\ converged' = FALSE
    /\ iter' = 0
    /\ maxError' = 0
    /\ pc' = "iterate"
    /\ UNCHANGED <<nodes, pipes, fluid, result, outside>>

\* The flow of a pipe when an orifice given by its ratio counts as a
\* restriction too
PipeFlow_AnyOrifice(pipe, P, lf) ==
    LET P1 == P[pipe.fromNode]
        P2 == P[pipe.toNode]
        dP == P1 - P2
        upstreamNode == IF dP >= 0 THEN pipe.fromNode ELSE pipe.toNode
        localFluid == LocalFluidAt(lf, upstreamNode)
        pipeArea == CircleArea(pipe.diameter)
        valveCdA == getValveCdA(pipe.valve, pipe.diameter, pipeArea)
        hasRestriction == valveCdA /= NullCdA
                            \/ pipe.orifice.present
    IN  IF hasRestriction /\ (localFluid.type = "gas" \/ P2 < localFluid.vaporPressure)
        THEN LET effectiveCdA ==
                     IF valveCdA /= NullCdA /\ valveCdA /= 0 THEN valveCdA
                     ELSE CdTimesArea(
                              IF ~pipe.orifice.present \/ pipe.orifice.Cd = 0
                                  THEN DefaultCd ELSE pipe.orifice.Cd,
                              CircleArea(IF ~pipe.orifice.present \/ pipe.orifice.diameter = 0
                                             THEN pipe.diameter ELSE pipe.orifice.diameter))
                 r == restrictionMassFlow(100, effectiveCdA, Max(P1, P2), Min(P1, P2),
                                          localFluid)
                 massFlow == IF dP >= 0 THEN r.massFlow ELSE -r.massFlow
             IN  [Q |-> Div(massFlow, localFluid.density),
                  isChoked |-> r.isChoked, flowRegime |-> r.flowRegime]
        ELSE LET R == pipeResistance(pipe, localFluid)
             IN  [Q |-> IF R >= Infinity THEN 0
                        ELSE Sign(dP) * SqrtRatio(KScale * RScale * Abs(dP), R + ResistanceEps),
                  isChoked |-> FALSE,
                  flowRegime |-> IF localFluid.type = "gas" THEN "subsonic_gas"
                                                            ELSE "incompressible"]

\* Step 2 of an iteration: the flow of one pipe from the node pressures P
\* and the local fluids lf
PipeFlow(pipe, P, lf) ==
    LET P1 == P[pipe.fromNode]
        P2 == P[pipe.toNode]
        dP == P1 - P2
        upstreamNode == IF dP >= 0 THEN pipe.fromNode ELSE pipe.toNode
        localFluid == LocalFluidAt(lf, upstreamNode)
        pipeArea == CircleArea(pipe.diameter)
        valveCdA == getValveCdA(pipe.valve, pipe.diameter, pipeArea)
        hasRestriction == valveCdA /= NullCdA
                            \/ (pipe.orifice.present /\ pipe.orifice.diameter > 0)
    IN  IF hasRestriction /\ (localFluid.type = "gas" \/ P2 < localFluid.vaporPressure)
        THEN LET effectiveCdA ==
                     IF valveCdA /= NullCdA /\ valveCdA /= 0 THEN valveCdA
                     ELSE CdTimesArea(
                              IF ~pipe.orifice.present \/ pipe.orifice.Cd = 0
                                  THEN DefaultCd ELSE pipe.orifice.Cd,
                              CircleArea(IF ~pipe.orifice.present \/ pipe.orifice.diameter = 0
                                             THEN pipe.diameter ELSE pipe.orifice.diameter))
                 r == restrictionMassFlow(100, effectiveCdA, Max(P1, P2), Min(P1, P2),
                                          localFluid)
                 massFlow == IF dP >= 0 THEN r.massFlow ELSE -r.massFlow
             IN  [Q |-> Div(massFlow, localFluid.density),
                  isChoked |-> r.isChoked, flowRegime |-> r.flowRegime]
        ELSE LET R == pipeResistance(pipe, localFluid)
             IN  [Q |-> IF R >= Infinity THEN 0
                        ELSE Sign(dP) * SqrtRatio(KScale * RScale * Abs(dP), R + ResistanceEps),
                  isChoked |-> FALSE,
                  flowRegime |-> IF localFluid.type = "gas" THEN "subsonic_gas"
                                                            ELSE "incompressible"]

RECURSIVE SumOver(_, _)
SumOver(S, f) ==
    IF S = {} THEN 0
    ELSE LET x == CHOOSE y \in S : TRUE IN f[x] + SumOver(S \ {x}, f)

\* 1 / (2 R |Q|), which is 0 for an infinite R
SensitivityTerm(R, absQ) ==
    IF R >= Infinity THEN 0
    ELSE IF (2 * R * absQ) \div SensDen = 0 THEN ZeroFlowSensitivity
    ELSE SensNum \div ((2 * R * absQ) \div SensDen)

\* Sensitivity that counts the choked pipes as well
Sensitivity_ChokedToo(pipe, localFluid, Q, isChoked) ==
    IF Abs(Q) > FlowEps THEN SensitivityTerm(pipeResistance(pipe, localFluid), Abs(Q))
    ELSE ZeroFlowSensitivity

\* What a pipe at a junction adds to dFlowdP
Sensitivity(pipe, localFluid, Q, isChoked) ==
    IF isChoked THEN 0
    ELSE IF Abs(Q) > FlowEps THEN SensitivityTerm(pipeResistance(pipe, localFluid), Abs(Q))
    ELSE ZeroFlowSensitivity

\* The test that guards a correction
Correctable(dFlowdP) == Abs(dFlowdP) > SensitivityEps

\* Correction with the sign of flowSum
Correction_WithFlowSum(flowSum, dFlowdP) == Div(Div(flowSum * SensScale, dFlowdP), 2)

\* -flowSum / dFlowdP * 0.5
Correction(flowSum, dFlowdP) == Div(Div((-flowSum) * SensScale, dFlowdP), 2)

\* JunctionStep without the floor under the corrected pressure
JunctionStep_NoFloor(node, P, lf, flows, choked) ==
    LET connections == nodeConnections(node.id)
        localFluid == LocalFluidAt(lf, node.id)
        flowSum == SumOver(connections, [c \in connections |-> flows[c[1]] * c[2]])
        dFlowdP == SumOver(connections,
                       [c \in connections |->
                           Sensitivity(PipeById(c[1]), localFluid, flows[c[1]],
                                       choked[c[1]].isChoked)])
        corrected == connections /= {} /\ Correctable(dFlowdP)
    IN  [flowSum |-> flowSum,
         dFlowdP |-> dFlowdP,
         corrected |-> corrected,
         pressure |-> IF corrected
                      THEN P[node.id] + Correction(flowSum, dFlowdP)
                      ELSE P[node.id]]

\* Step 3 of an iteration at one junction: its flow sum, its sensitivity,
\* whether it is corrected, and its pressure after the step
JunctionStep(node, P, lf, flows, choked) ==
    LET connections == nodeConnections(node.id)
        localFluid == LocalFluidAt(lf, node.id)
        flowSum == SumOver(connections, [c \in connections |-> flows[c[1]] * c[2]])
        dFlowdP == SumOver(connections,
                       [c \in connections |->
                           Sensitivity(PipeById(c[1]), localFluid, flows[c[1]],
                                       choked[c[1]].isChoked)])
        corrected == connections /= {} /\ Correctable(dFlowdP)
    IN  [flowSum |-> flowSum,
         dFlowdP |-> dFlowdP,
         corrected |-> corrected,
         pressure |-> IF corrected
                      THEN Max(PressureFloor, P[node.id] + Correction(flowSum, dFlowdP))
                      ELSE P[node.id]]

\* CorrectedNodes with the boundary nodes corrected too
CorrectedNodes_All == SeqToSet(nodes)

\* The nodes whose pressure an iteration corrects
CorrectedNodes == SeqToSet(internalNodes)

RECURSIVE MaxOver(_, _)
MaxOver(S, f) ==
    IF S = {} THEN 0
    ELSE LET x == CHOOSE y \in S : TRUE IN Max(f[x], MaxOver(S \ {x}, f))

\* BelowTolerance with maxError <= tolerance
BelowTolerance_Inclusive(err) == err <= tolerance

\* maxError < tolerance
BelowTolerance(err) == err < tolerance
\* LoopContinues with iter <= maxIterations
LoopContinues_Inclusive(i) == i <= maxIterations

\* iter < maxIterations
LoopContinues(i) == i < maxIterations

Iterate ==
    /\ pc = "iterate"
    /\ temperatures' =
         IF isCompressible
         THEN [id \in NodeIds |->
                  isentropicTemperature(inletTemperature, inletPressure, pressures[id],
                                        GammaNum(fluid), GammaDen(fluid))]
         ELSE temperatures
    /\ localFluids' =
         IF isCompressible
         THEN [id \in NodeIds |->
                  getLocalFluidProperties(fluid, pressures[id], temperatures'[id])]
         ELSE [id \in NodeIds |-> fluid]
    /\ LET flow == [id \in PipeIds |-> PipeFlow(PipeById(id), pressures, localFluids')]
       IN  /\ flowRates' = [id \in PipeIds |-> flow[id].Q]
           /\ chokedStatus' = [id \in PipeIds |->
                                  [isChoked |-> flow[id].isChoked,
                                   flowRegime |-> flow[id].flowRegime]]
    /\ LET step == [n \in CorrectedNodes |->
                       JunctionStep(n, pressures, localFluids', flowRates', chokedStatus')]
       IN  /\ pressures' = [id \in NodeIds |->
                               IF NodeById(id) \in CorrectedNodes
                               THEN step[NodeById(id)].pressure
                               ELSE pressures[id]]
           /\ maxError' = MaxOver({n \in CorrectedNodes : step[n].corrected},
                                  [n \in CorrectedNodes |-> Abs(step[n].flowSum)])
    /\ iter' = iter + 1
    /\ converged' = BelowTolerance(maxError')
    /\ pc' = IF converged' \/ ~LoopContinues(iter') THEN "build" ELSE "iterate"
    /\ UNCHANGED <<nodes, pipes, fluid, result, outside>>

\* Q / area, in 1/100 of flow unit per area unit
Velocity(Q, area) == Div(Q * 100, area)

\* NodeResult that derives the temperature and the density again from the
\* pressure it reports
NodeResult_AtReportedPressure(id) ==
    LET T == IF isCompressible
             THEN isentropicTemperature(inletTemperature, inletPressure, pressures[id],
                                        GammaNum(fluid), GammaDen(fluid))
             ELSE temperatures[id]
        localFluid == IF isCompressible
                      THEN getLocalFluidProperties(fluid, pressures[id], T)
                      ELSE LocalFluidAt(localFluids, id)
    IN  [pressure |-> pressures[id],
         temperature |-> T,
         density |-> localFluid.density,
         viscosity |-> localFluid.viscosity]

NodeResult(id) ==
    LET localFluid == LocalFluidAt(localFluids, id)
    IN  [pressure |-> pressures[id],
         temperature |-> temperatures[id],
         density |-> localFluid.density,
         viscosity |-> localFluid.viscosity]

PipeResult(pipe) ==
    LET Q == flowRates[pipe.id]
        P1 == pressures[pipe.fromNode]
        P2 == pressures[pipe.toNode]
        upstreamNode == IF P1 >= P2 THEN pipe.fromNode ELSE pipe.toNode
        localFluid == LocalFluidAt(localFluids, upstreamNode)
        T1 == temperatures[pipe.fromNode]
        T2 == temperatures[pipe.toNode]
    IN  [flowRate |-> Q,
         massFlowRate |-> Q * localFluid.density,
         velocity |-> Velocity(Q, CircleArea(pipe.diameter)),
         pressureDrop |-> P1 - P2,
         isChoked |-> chokedStatus[pipe.id].isChoked,
         flowRegime |-> chokedStatus[pipe.id].flowRegime,
         upstreamTemp |-> T1,
         downstreamTemp |-> T2,
         tempDropC |-> IF isCompressible THEN -(T2 - T1) ELSE 0,
         upstreamDensity |-> localFluid.density]

\* Results with entries for the junctions only
Results_JunctionsOnly ==
    [success |-> converged,
     fluidType |-> fluid.type,
     isCompressible |-> isCompressible,
     inletConditions |-> [pressure |-> inletPressure, temperature |-> inletTemperature],
     nodes |-> [id \in {n.id : n \in SeqToSet(internalNodes)} |-> NodeResult(id)],
     pipes |-> [id \in PipeIds |-> PipeResult(PipeById(id))]]

\* The unit conversions of a result (kPa, psi, degrees C, L/min) and the
\* fluid's name are display fields and are left out
Results ==
    [success |-> converged,
     fluidType |-> fluid.type,
     isCompressible |-> isCompressible,
     inletConditions |-> [pressure |-> inletPressure, temperature |-> inletTemperature],
     nodes |-> [id \in NodeIds |-> NodeResult(id)],
     pipes |-> [id \in PipeIds |-> PipeResult(PipeById(id))]]

\* results.error = ...
WithError(r, message) ==
    [k \in DOMAIN r \cup {"error"} |-> IF k = "error" THEN message ELSE r[k]]

BuildResults ==
    /\ pc = "build"
    /\ result' = IF ~converged
                 THEN WithError(Results,
                                "Solver did not converge - check network connectivity")
                 ELSE Results
    /\ pc' = "done"
    /\ UNCHANGED <<nodes, pipes, fluid, iter, pressures, temperatures, localFluids,
                   flowRates, chokedStatus, maxError, converged, outside>>

\* ------------------------------------------------------------ the inputs

MaxNodes == 3
PressureLevels == {500, 3000, 20000}

NoValve == [present |-> FALSE, specMode |-> "", Cd |-> 0, diameter |-> 0, area |-> 0,
            CdA |-> 0, Cv |-> 0]
NoOrifice == [present |-> FALSE, diameter |-> 0, ratio |-> 0, Cd |-> 0]
ValveOfCdA(c) == [NoValve EXCEPT !.present = TRUE, !.specMode = "cda", !.CdA = c]

\* A liquid with the vapor pressure of water at 20 C
Water == [type |-> "liquid", density |-> 998, viscosity |-> 100200,
          vaporPressure |-> 2339, gammaNum |-> 0, gammaDen |-> 0,
          molecularWeight |-> 0, temperature |-> 29315, pressure |-> 20000,
          Tref |-> 0, sutherlandS |-> 0]
\* A gas with the molecular weight, gamma and Sutherland constants of air
Air == [type |-> "gas", density |-> gasDensityAtPT(20000, 29315, 28970),
        viscosity |-> 1820, vaporPressure |-> 0, gammaNum |-> 7, gammaDen |-> 5,
        molecularWeight |-> 28970, temperature |-> 29315, pressure |-> 20000,
        Tref |-> 29315, sutherlandS |-> 11040]
Fluids == {Water, Air}

NodeSpecs == {[type |-> "junction", pressure |-> 0]}
               \cup {[type |-> "boundary", pressure |-> p] : p \in PressureLevels}
\* A pipe is plain, carries an open valve or, the first pipe of a chain
\* only, a closed one
PipeKinds == {"plain", "valve", "closed"}
PipeKindsAt(k) == IF k = 1 THEN PipeKinds ELSE PipeKinds \ {"closed"}

\* Pipe k of a chain joins node k to node k+1
ChainPipe(k, kind) ==
    [id |-> k, fromNode |-> k, toNode |-> k + 1, diameter |-> 10,
     length |-> IF k % 2 = 1 THEN 1000 ELSE 500,
     valve |-> IF kind = "valve" THEN ValveOfCdA(40)
               ELSE IF kind = "closed" THEN ValveOfCdA(0) ELSE NoValve,
     orifice |-> NoOrifice]

\* A chain of n nodes has up to n-1 pipes; under two nodes one pipe may be
\* given all the same (the call returns before it looks at it)
MaxPipesOf(n) == IF n < 2 THEN 1 ELSE n - 1

Idle ==
    /\ pc = "start"
    /\ iter = 0
    /\ pressures = <<>>
    /\ temperatures = <<>>
    /\ localFluids = <<>>
    /\ flowRates = <<>>
    /\ chokedStatus = <<>>
    /\ maxError = 0
    /\ converged = FALSE
    /\ result = [pending |-> TRUE]

\* App.jsx: useState(null) for results
NullResults == [null |-> TRUE]

\* App.jsx: the initial values of the editor's state. An id is a number and
\* 0 stands for null; temperature and pressure are those of Water (pressures
\* are kept within the range of the fixed-point arithmetic)
InitialApp ==
    [nodes |-> <<>>, pipes |-> <<>>, components |-> <<>>,
     selectedId |-> 0, selectedType |-> "none", mode |-> "select",
     connectingFrom |-> 0, results |-> NullResults, resultsFor |-> NullResults,
     selectedFluid |-> "water", temperature |-> 29315, pressure |-> 20000,
     nodeCounter |-> 0, componentCounter |-> 0, solving |-> FALSE]

NoDirectCall ==
    /\ call = [pending |-> TRUE]
    /\ ret = [pending |-> TRUE]
    /\ app = InitialApp

\* The networks: a chain of up to MaxNodes nodes whose two end nodes are
\* boundaries or junctions and whose inner nodes are junctions
NodeSpecsAt(i, n) ==
    IF i = 1 \/ i = n THEN NodeSpecs ELSE {[type |-> "junction", pressure |-> 0]}

ChainNodes(n) ==
    {[i \in 1..n |-> [id |-> i, type |-> spec[i].type, pressure |-> spec[i].pressure]] :
        spec \in {sp \in [1..n -> NodeSpecs] : \A i \in 1..n : sp[i] \in NodeSpecsAt(i, n)}}

ChainPipes(n) ==
    UNION {{[k \in 1..m |-> ChainPipe(k, kind[k])] :
                kind \in {kd \in [1..m -> PipeKinds] : \A k \in 1..m : kd[k] \in PipeKindsAt(k)}} :
             m \in 0..MaxPipesOf(n)}

Init ==
    /\ \E n \in 0..MaxNodes :
         /\ nodes \in ChainNodes(n)
         /\ pipes \in ChainPipes(n)
    /\ fluid \in Fluids
    /\ Idle
    /\ returned = <<>>
    /\ NoDirectCall

Next ==
    \/ ReturnTooSmall
    \/ ReturnNoBoundary
    \/ Initialize
    \/ Iterate
    \/ BuildResults

Spec == Init /\ [][Next]_vars

\* ------------------------------------------------- properties of a call

\* The call has returned
Returned == pc = "done"

\* The arguments pass validation: two nodes, a pipe and a boundary node
ArgumentsValid ==
    /\ Len(nodes) >= 2
    /\ Len(pipes) >= 1
    /\ \E i \in 1..Len(nodes) : nodes[i].type = "boundary"

Junctions == {n \in SeqToSet(nodes) : n.type = "junction"}
Boundaries == {n \in SeqToSet(nodes) : n.type = "boundary"}

\* The signed sum of a field of the returned pipes at a node
ReturnedSumAt(id, field) ==
    SumOver(nodeConnections(id),
            [c \in nodeConnections(id) |-> result.pipes[c[1]][field] * c[2]])

\* The largest density among the returned nodes
ReturnedMaxDensity == MaxOver(NodeIds, [id \in NodeIds |-> result.nodes[id].density])

\* C1: when a call returns success = true, at every junction with at least
\* one pipe the signed sum of the returned flowRate (out of the node
\* positive, into it negative) is zero within the tolerance.
C1_JunctionFlowBalance ==
    (Returned /\ ArgumentsValid /\ result.success) =>
        \A n \in Junctions :
            nodeConnections(n.id) /= {} =>
                Abs(ReturnedSumAt(n.id, "flowRate")) < tolerance

\* C2: when a call returns success = true, at every junction the signed sum
\* of the returned massFlowRate is zero within the tolerance (the flow
\* tolerance times the largest density of the result), for gas and liquid.
C2_JunctionMassBalance ==
    (Returned /\ ArgumentsValid /\ result.success) =>
        \A n \in Junctions :
            nodeConnections(n.id) /= {} =>
                Abs(ReturnedSumAt(n.id, "massFlowRate")) < tolerance * ReturnedMaxDensity

\* C3: a call with fewer than two nodes, no pipe or no boundary node returns
\* success = false with an error message and nothing else, and has run no
\* iteration.
C3_ValidationFailure ==
    (Returned /\ ~ArgumentsValid) =>
        /\ DOMAIN result = {"success", "error"}
        /\ result.success = FALSE
        /\ result.error /= ""
        /\ iter = 0
        /\ pressures = <<>>
        /\ flowRates = <<>>

C3_Witness ==
    /\ Returned
    /\ Len(nodes) >= 2
    /\ Len(pipes) >= 1
    /\ Boundaries = {}
    /\ result.success = FALSE

C5_ResultShape ==
    (Returned /\ ArgumentsValid) =>
        /\ {"success", "nodes", "pipes"} \subseteq DOMAIN result
        /\ DOMAIN result.nodes = {nodes[i].id : i \in 1..Len(nodes)}
        /\ DOMAIN result.pipes = {pipes[i].id : i \in 1..Len(pipes)}
        /\ \A id \in DOMAIN result.nodes :
              {"pressure", "temperature", "density", "viscosity"}
                  \subseteq DOMAIN result.nodes[id]
        /\ \A id \in DOMAIN result.pipes :
              {"flowRate", "massFlowRate", "velocity", "pressureDrop",
               "isChoked", "flowRegime"} \subseteq DOMAIN result.pipes[id]

C5_Witness ==
    /\ Returned
    /\ ArgumentsValid
    /\ pipes[1].valve.present /\ pipes[1].valve.CdA = 0
    /\ ~result.success
    /\ Len(nodes) = 3
    /\ DOMAIN result.nodes = {1, 2, 3}
    /\ DOMAIN result.pipes = {1, 2}

\* C6: the pressure of a boundary node is the given one through every
\* iteration and in the result; only junction pressures are corrected.
C6_BoundaryPressureFixed ==
    /\ pc \in {"iterate", "build", "done"} /\ ArgumentsValid =>
          \A n \in Boundaries : pressures[n.id] = n.pressure
    /\ Returned /\ ArgumentsValid =>
          \A n \in Boundaries : result.nodes[n.id].pressure = n.pressure

C6_Witness ==
    /\ Returned
    /\ ArgumentsValid
    /\ iter >= 2
    /\ \E n \in Boundaries : nodeConnections(n.id) /= {} /\ flowRates /= <<>>
                               /\ \E c \in nodeConnections(n.id) : flowRates[c[1]] /= 0
    /\ \E n \in Junctions : pressures[n.id] /= avgPressure
    /\ \A n \in Boundaries : result.nodes[n.id].pressure = n.pressure

\* ------------------------------------------------------ call after call

BoundaryNode(i, p) == [id |-> i, type |-> "boundary", pressure |-> p]
JunctionNode(i) == [id |-> i, type |-> "junction", pressure |-> 0]

\* The arguments of the calls of a caller that solves again and again
CallInputs ==
    {[nodes |-> <<BoundaryNode(1, 20000), JunctionNode(2), BoundaryNode(3, 500)>>,
      pipes |-> <<ChainPipe(1, "plain"), ChainPipe(2, "plain")>>, fluid |-> Water],
     [nodes |-> <<BoundaryNode(1, 20000), JunctionNode(2), BoundaryNode(3, 3000)>>,
      pipes |-> <<ChainPipe(1, "valve"), ChainPipe(2, "valve")>>, fluid |-> Air],
     [nodes |-> <<BoundaryNode(1, 20000), JunctionNode(2), BoundaryNode(3, 500)>>,
      pipes |-> <<ChainPipe(1, "valve"), ChainPipe(2, "valve")>>, fluid |-> Air],
     [nodes |-> <<BoundaryNode(1, 20000)>>, pipes |-> <<>>, fluid |-> Water],
     [nodes |-> <<JunctionNode(1), JunctionNode(2)>>,
      pipes |-> <<ChainPipe(1, "plain")>>, fluid |-> Water]}

Arguments == [nodes |-> nodes, pipes |-> pipes, fluid |-> fluid]

\* The caller notes the result of the call that returned and calls again;
\* what the earlier call left in its working variables is still there
NewCall ==
    /\ pc = "done"
    /\ returned' = [a \in DOMAIN returned \cup {Arguments} |->
                       IF a \in DOMAIN returned THEN returned[a] ELSE result]
    /\ \E in \in CallInputs :
         /\ nodes' = in.nodes
         /\ pipes' = in.pipes
         /\ fluid' = in.fluid
    /\ pc' = "start"
    /\ result' = [pending |-> TRUE]
    /\ UNCHANGED <<iter, pressures, temperatures, localFluids, flowRates, chokedStatus,
                   maxError, converged, call, ret, app>>

InitCalls ==
    /\ \E in \in CallInputs :
         /\ nodes = in.nodes
         /\ pipes = in.pipes
         /\ fluid = in.fluid
    /\ Idle
    /\ returned = <<>>
    /\ NoDirectCall

NextCalls ==
    \/ ReturnTooSmall
    \/ ReturnNoBoundary
    \/ Initialize
    \/ Iterate
    \/ BuildResults
    \/ NewCall

SpecCalls == InitCalls /\ [][NextCalls]_vars

\* C8: a call is a pure function of its arguments: while it runs the nodes,
\* pipes and fluid it was given stay as they were, and a call returns what
\* the first call with equal arguments returned, whichever calls ran before
\* or in between.
C8_PureFunction ==
    /\ [](Returned /\ Arguments \in DOMAIN returned => result = returned[Arguments])
    /\ [][pc /= "done" => UNCHANGED <<nodes, pipes, fluid>>]_vars

C8_Witness ==
    /\ Returned
    /\ Arguments \in DOMAIN returned
    /\ Cardinality(DOMAIN returned) >= 3
    /\ result.success
    /\ result = returned[Arguments]
    /\ \E id \in DOMAIN result.nodes : result.nodes[id].pressure /= avgPressure

\* ----------------------------------------------------- the call, fairly

\* A first pipe with a closed valve, which no iteration count overcomes
ClosedValveInput ==
    [nodes |-> <<BoundaryNode(1, 20000), JunctionNode(2), BoundaryNode(3, 500)>>,
     pipes |-> <<ChainPipe(1, "closed"), ChainPipe(2, "plain")>>, fluid |-> Water]

\* The liquid calls and the one that does not converge
FairInputs == {in \in CallInputs : in.fluid = Water} \cup {ClosedValveInput}

InitFair ==
    /\ \E in \in FairInputs :
         /\ nodes = in.nodes
         /\ pipes = in.pipes
         /\ fluid = in.fluid
    /\ Idle
    /\ returned = <<>>
    /\ NoDirectCall

\* A call that has started runs on: nothing suspends the loop
FairSpec == InitFair /\ [][Next]_vars /\ WF_vars(Next)

\* One step of a call: Initialize once from the start, iterations that
\* count up by one, the results after the loop, nothing after the return
CallStep ==
    /\ pc = "start" => pc' \in {"iterate", "done"}
    /\ pc = "iterate" => pc' \in {"iterate", "build"} /\ iter' = iter + 1
    /\ pc = "build" => pc' = "done" /\ iter' = iter
    /\ pc = "done" => FALSE
    /\ pc' = "start" => FALSE
    /\ pc' = "iterate" /\ pc /= "iterate" => pc = "start" /\ iter' = 0

\* C7: every call terminates: one pass through Initialize, at most
\* maxIterations iterations (never one more), then the return, converged or
\* not; Initialize is never entered again and nothing is retried.
C7_Terminates ==
    /\ <>Returned
    /\ [](iter <= maxIterations)
    /\ [](Returned /\ ArgumentsValid => result.success = converged)
    /\ [][CallStep]_vars

C7_Witness ==
    /\ Returned
    /\ Arguments = ClosedValveInput
    /\ iter = maxIterations
    /\ ~converged
    /\ ~result.success

\* ------------------------------------------- restrictionMassFlow, directly

RestrictionCds == {62, 100}
RestrictionAreas == {40, 78}
RestrictionPressures == {0, 2339, 5280, 10000, 20000}
\* A liquid without a vapor pressure
Oil == [Water EXCEPT !.density = 850, !.vaporPressure = 0]
RestrictionFluids == {Water, Oil, Air}

Computed(r) == "pending" \notin DOMAIN r

InitRestriction ==
    /\ nodes = <<>>
    /\ pipes = <<>>
    /\ fluid = Water
    /\ Idle
    /\ returned = <<>>
    /\ call \in [Cd : RestrictionCds, area : RestrictionAreas,
                 P1 : RestrictionPressures, P2 : RestrictionPressures,
                 fluid : RestrictionFluids]
    /\ ret = [pending |-> TRUE]
    /\ app = InitialApp

CallRestriction ==
    /\ ~Computed(ret)
    /\ ret' = restrictionMassFlow(call.Cd, call.area, call.P1, call.P2, call.fluid)
    /\ UNCHANGED <<nodes, pipes, fluid, pc, iter, pressures, temperatures, localFluids,
                   flowRates, chokedStatus, maxError, converged, result, returned, call,
                   app>>

SpecRestriction == InitRestriction /\ [][CallRestriction]_vars

\* C9: restrictionMassFlow with P1 <= P2 returns massFlow 0, isChoked false
\* and flowRegime "no_flow" for a liquid and for a gas, and with P1 > P2 the
\* massFlow it returns is not negative.
C9_NoFlowUnlessDriven ==
    Computed(ret) =>
        /\ call.P1 <= call.P2 =>
              ret = [massFlow |-> 0, isChoked |-> FALSE, flowRegime |-> "no_flow"]
        /\ call.P1 > call.P2 => ret.massFlow >= 0

C9_Witness ==
    /\ Computed(ret)
    /\ call.fluid.type = "gas"
    /\ call.P1 = call.P2
    /\ call.P1 > 0
    /\ ret.flowRegime = "no_flow"
    /\ ret.massFlow = 0

\* P2 / P1 <= r, in whole numbers
RatioAtMost(P2, P1, r) == P2 * FX < (r + 1) * P1

\* C10: with P1 > P2 restrictionMassFlow names one regime: for a gas
\* "choked_gas" with isChoked true if and only if P2/P1 is at most the
\* critical pressure ratio of its gamma and "subsonic_gas" with isChoked
\* false otherwise; for a liquid "choked_liquid" with isChoked true if and
\* only if P2 is at most the vapor pressure and "incompressible" with
\* isChoked false otherwise. A tie is choked.
C10_RegimeSelection ==
    (Computed(ret) /\ call.P1 > call.P2) =>
        IF call.fluid.type = "gas"
        THEN IF RatioAtMost(call.P2, call.P1,
                            criticalPressureRatio(GammaNum(call.fluid), GammaDen(call.fluid)))
             THEN ret.flowRegime = "choked_gas" /\ ret.isChoked = TRUE
             ELSE ret.flowRegime = "subsonic_gas" /\ ret.isChoked = FALSE
        ELSE IF call.P2 <= call.fluid.vaporPressure
             THEN ret.flowRegime = "choked_liquid" /\ ret.isChoked = TRUE
             ELSE ret.flowRegime = "incompressible" /\ ret.isChoked = FALSE

C10_Witness ==
    /\ Computed(ret)
    /\ call.fluid.type = "gas"
    /\ call.P1 > call.P2
    /\ (call.P2 * FX) \div call.P1
         = criticalPressureRatio(GammaNum(call.fluid), GammaDen(call.fluid))
    /\ ret.isChoked
    /\ ret.flowRegime = "choked_gas"
    /\ ret.massFlow > 0

\* ------------------------------------- restrictionMassFlow, called twice

\* The caller notes what the call returned and calls again with another P2
CallRestrictionAgain ==
    /\ Computed(ret)
    /\ returned = <<>>
    /\ returned' = [a \in {call} |-> ret]
    /\ \E p \in RestrictionPressures \ {call.P2} : call' = [call EXCEPT !.P2 = p]
    /\ ret' = [pending |-> TRUE]
    /\ UNCHANGED <<nodes, pipes, fluid, pc, iter, pressures, temperatures, localFluids,
                   flowRates, chokedStatus, maxError, converged, result, app>>

NextRestrictionPair ==
    \/ CallRestriction
    \/ CallRestrictionAgain

SpecRestrictionPair == InitRestriction /\ [][NextRestrictionPair]_vars

\* The arguments of the first of two calls
FirstCall == CHOOSE a \in DOMAIN returned : TRUE

\* P2 is in the choked range of P1: for a gas at or below P1 times the
\* critical ratio, for a liquid at or below the vapor pressure
InChokedRange(P1, P2, fl) ==
    IF fl.type = "gas"
    THEN P1 > P2 /\ RatioAtMost(P2, P1, criticalPressureRatio(GammaNum(fl), GammaDen(fl)))
    ELSE P2 <= fl.vaporPressure

\* C11: with Cd, area, P1 and fluid fixed, two downstream pressures that are
\* both in the choked range give the same massFlow.
C11_ChokedFlowIgnoresP2 ==
    (Computed(ret) /\ returned /= <<>>
       /\ InChokedRange(call.P1, call.P2, call.fluid)
       /\ InChokedRange(FirstCall.P1, FirstCall.P2, FirstCall.fluid)) =>
        ret.massFlow = returned[FirstCall].massFlow

C11_Witness ==
    /\ Computed(ret)
    /\ returned /= <<>>
    /\ call.fluid.type = "gas"
    /\ call.P2 /= FirstCall.P2
    /\ call.P2 > 0 /\ FirstCall.P2 > 0
    /\ ret.isChoked /\ returned[FirstCall].isChoked
    /\ ret.massFlow > 0
    /\ ret.massFlow = returned[FirstCall].massFlow

\* ------------------------------------------- one pipe, solved and edited

PipePressures == {500, 2339, 3000, 20000}
PipeLengths == {1000, 5000}

OrificeOfDiameter(d) == [NoOrifice EXCEPT !.present = TRUE, !.diameter = d, !.Cd = 62]
OrificeOfRatio(b) == [NoOrifice EXCEPT !.present = TRUE, !.ratio = b, !.Cd = 62]
ValveOfCv(cv) == [NoValve EXCEPT !.present = TRUE, !.specMode = "cv", !.Cv = cv]

\* No valve, an open one, and one closed in either way
PipeValves == {NoValve, ValveOfCdA(40), ValveOfCdA(0), ValveOfCv(0)}
\* No orifice, one of half the pipe's diameter given by diameter or by ratio
PipeOrifices == {NoOrifice, OrificeOfDiameter(5), OrificeOfRatio(50)}

SinglePipe(len, valve, orifice) ==
    [id |-> 1, fromNode |-> 1, toNode |-> 2, diameter |-> 10, length |-> len,
     valve |-> valve, orifice |-> orifice]

\* Two boundary nodes joined by one pipe
PipeInputs ==
    {[nodes |-> <<BoundaryNode(1, pa), BoundaryNode(2, pb)>>,
      pipes |-> <<SinglePipe(len, v, o)>>, fluid |-> f] :
        pa \in PipePressures, pb \in PipePressures, len \in PipeLengths,
        v \in PipeValves, o \in PipeOrifices, f \in Fluids}

\* With them the calls above: networks with a junction, and invalid ones
PipeCallInputs == PipeInputs \cup CallInputs \cup {ClosedValveInput}

\* The edits of a pipe
Swapped(pipe) == [pipe EXCEPT !.fromNode = pipe.toNode, !.toNode = pipe.fromNode]
Wider(pipe) == [pipe EXCEPT !.diameter = 12]
Longer(pipe) == [pipe EXCEPT !.length = 2 * pipe.length]
WithoutValve(pipe) == [pipe EXCEPT !.valve = NoValve]
WithoutOrifice(pipe) == [pipe EXCEPT !.orifice = NoOrifice]
PipeEdits(pipe) ==
    {Swapped(pipe), Wider(pipe), Longer(pipe), WithoutValve(pipe), WithoutOrifice(pipe)}
        \ {pipe}

\* The caller notes the result, edits the first pipe and solves again
CallEdited ==
    /\ pc = "done"
    /\ returned = <<>>
    /\ Len(pipes) > 0
    /\ returned' = [a \in {Arguments} |-> result]
    /\ \E e \in PipeEdits(pipes[1]) : pipes' = [pipes EXCEPT ![1] = e]
    /\ pc' = "start"
    /\ result' = [pending |-> TRUE]
    /\ UNCHANGED <<nodes, fluid, iter, pressures, temperatures, localFluids, flowRates,
                   chokedStatus, maxError, converged, call, ret, app>>

InitPipes ==
    /\ \E in \in PipeCallInputs :
         /\ nodes = in.nodes
         /\ pipes = in.pipes
         /\ fluid = in.fluid
    /\ Idle
    /\ returned = <<>>
    /\ NoDirectCall

NextPipes ==
    \/ ReturnTooSmall
    \/ ReturnNoBoundary
    \/ Initialize
    \/ Iterate
    \/ BuildResults
    \/ CallEdited

SpecPipes == InitPipes /\ [][NextPipes]_vars

\* The flow Q does not run from the lower of the pressures Pfrom and Pto
\* to the higher
Downhill(Pfrom, Pto, Q) ==
    /\ Pfrom > Pto => Q >= 0
    /\ Pfrom < Pto => Q <= 0
    /\ Pfrom = Pto => Q = 0

\* C12: the flow an iteration computes for a pipe from the node pressures
\* is not negative when the fromNode pressure is the higher, not positive
\* when it is the lower and 0 when the two are equal; the flowRate reported
\* for a pipe between two boundary nodes never points from the lower
\* pressure to the higher.
C12_FlowRunsDownhill ==
    /\ [][pc = "iterate" =>
            \A i \in 1..Len(pipes) :
                Downhill(pressures[pipes[i].fromNode], pressures[pipes[i].toNode],
                         flowRates'[pipes[i].id])]_vars
    /\ [](Returned /\ ArgumentsValid =>
            \A i \in 1..Len(pipes) :
                (NodeById(pipes[i].fromNode).type = "boundary"
                   /\ NodeById(pipes[i].toNode).type = "boundary") =>
                    Downhill(NodeById(pipes[i].fromNode).pressure,
                             NodeById(pipes[i].toNode).pressure,
                             result.pipes[pipes[i].id].flowRate))

C12_Witness ==
    /\ Returned
    /\ Len(nodes) = 2
    /\ nodes[1].pressure < nodes[2].pressure
    /\ pipes[1].fromNode = 1
    /\ ~pipes[1].valve.present /\ ~pipes[1].orifice.present
    /\ result.pipes[1].flowRate < 0

\* The call that returned is the first call with its first pipe edited by f
EditedBy(f(_)) ==
    /\ Returned
    /\ returned /= <<>>
    /\ Len(pipes) > 0
    /\ f(FirstCall.pipes[1]) /= FirstCall.pipes[1]
    /\ Arguments = [FirstCall EXCEPT !.pipes[1] = f(FirstCall.pipes[1])]

\* C13: solving a network again with the fromNode and toNode of one pipe
\* swapped and all else equal negates that pipe's flowRate, massFlowRate
\* and pressureDrop and leaves the node results, success and that pipe's
\* isChoked and flowRegime as they were.
C13_DirectionIsSignOnly ==
    (EditedBy(Swapped) /\ ArgumentsValid) =>
        LET first == returned[FirstCall]
        IN  /\ result.pipes[1].flowRate = -first.pipes[1].flowRate
            /\ result.pipes[1].massFlowRate = -first.pipes[1].massFlowRate
            /\ result.pipes[1].pressureDrop = -first.pipes[1].pressureDrop
            /\ result.pipes[1].isChoked = first.pipes[1].isChoked
            /\ result.pipes[1].flowRegime = first.pipes[1].flowRegime
            /\ result.nodes = first.nodes
            /\ result.success = first.success

\* Both ends of the pipe are boundary nodes
BetweenBoundaries(pipe) ==
    /\ NodeById(pipe.fromNode).type = "boundary"
    /\ NodeById(pipe.toNode).type = "boundary"

\* The lower of the pressures at the two ends of a pipe between boundaries
DownstreamPressure(pipe) ==
    Min(NodeById(pipe.fromNode).pressure, NodeById(pipe.toNode).pressure)

\* C14: for a liquid, a pipe between two boundary nodes that carries a
\* valve or an orifice is reported isChoked = true with flowRegime
\* 'choked_liquid' exactly when the lower of its two end pressures is at or
\* below the vapor pressure and the two end pressures differ, whichever
\* end is the toNode; otherwise it is reported isChoked = false.
C14_LiquidChokeByDownstreamEnd ==
    (Returned /\ ArgumentsValid /\ fluid.type = "liquid") =>
        \A i \in 1..Len(pipes) :
            (BetweenBoundaries(pipes[i])
               /\ (pipes[i].valve.present \/ pipes[i].orifice.present)) =>
                IF /\ DownstreamPressure(pipes[i]) <= fluid.vaporPressure
                   /\ NodeById(pipes[i].fromNode).pressure
                        /= NodeById(pipes[i].toNode).pressure
                THEN /\ result.pipes[pipes[i].id].isChoked
                     /\ result.pipes[pipes[i].id].flowRegime = "choked_liquid"
                ELSE ~result.pipes[pipes[i].id].isChoked

\* The higher of the pressures at the two ends of a pipe between boundaries
UpstreamPressure(pipe) ==
    Max(NodeById(pipe.fromNode).pressure, NodeById(pipe.toNode).pressure)

\* C15: for a gas, a pipe between two boundary nodes that carries an
\* orifice, given by its diameter or by its diameter ratio, is reported
\* isChoked = true whenever the ratio of its downstream to its upstream
\* pressure is at or below the critical ratio.
C15_GasOrificeChokes ==
    (Returned /\ ArgumentsValid /\ fluid.type = "gas") =>
        \A i \in 1..Len(pipes) :
            (/\ BetweenBoundaries(pipes[i])
             /\ pipes[i].orifice.present
             /\ (pipes[i].orifice.diameter > 0 \/ pipes[i].orifice.ratio > 0)
             /\ UpstreamPressure(pipes[i]) > DownstreamPressure(pipes[i])
             /\ RatioAtMost(DownstreamPressure(pipes[i]), UpstreamPressure(pipes[i]),
                            criticalPressureRatio(GammaNum(fluid), GammaDen(fluid)))) =>
                result.pipes[pipes[i].id].isChoked

\* The valve lets nothing through: its effective CdA is 0
ClosedValve(valve) ==
    /\ valve.present
    /\ getValveCdA(valve, 0, 0) = 0

\* C16: a pipe whose valve is closed (specMode 'cda' with CdA 0, 'cv' with
\* Cv 0) has flow 0 after every iteration and flowRate 0 in the result, for
\* a liquid and for a gas, at any node pressures, with or without an
\* orifice.
C16_ClosedValveNoFlow ==
    (pc \in {"iterate", "build", "done"} /\ ArgumentsValid /\ iter > 0) =>
        \A i \in 1..Len(pipes) :
            ClosedValve(pipes[i].valve) =>
                /\ flowRates[pipes[i].id] = 0
                /\ Returned => result.pipes[pipes[i].id].flowRate = 0

\* The network is one pipe between two boundary nodes at different pressures
OnePipeDriven ==
    /\ Len(nodes) = 2
    /\ Len(pipes) = 1
    /\ BetweenBoundaries(pipes[1])
    /\ UpstreamPressure(pipes[1]) > DownstreamPressure(pipes[1])

\* C17: for one pipe between two boundary nodes at different pressures,
\* with any fluid and with or without a valve or an orifice, the same
\* network with a larger pipe diameter returns a strictly larger
\* |flowRate| and with a longer pipe a strictly smaller |flowRate|.
C17_DiameterAndLengthMonotone ==
    /\ (EditedBy(Wider) /\ OnePipeDriven) =>
           Abs(result.pipes[1].flowRate) > Abs(returned[FirstCall].pipes[1].flowRate)
    /\ (EditedBy(Longer) /\ OnePipeDriven) =>
           Abs(result.pipes[1].flowRate) < Abs(returned[FirstCall].pipes[1].flowRate)

\* C18: for one pipe between two boundary nodes, the pipe with a valve or
\* an orifice never returns a larger |flowRate| than the same pipe without
\* it, for a liquid and for a gas.
C18_RestrictionNeverAddsFlow ==
    /\ (EditedBy(WithoutValve) /\ OnePipeDriven) =>
           Abs(returned[FirstCall].pipes[1].flowRate) <= Abs(result.pipes[1].flowRate)
    /\ (EditedBy(WithoutOrifice) /\ OnePipeDriven) =>
           Abs(returned[FirstCall].pipes[1].flowRate) <= Abs(result.pipes[1].flowRate)

\* ------------------------------------------- temperatures of a network

\* Water given without a temperature, and water and air given hot
WaterNoTemperature == [Water EXCEPT !.temperature = 0]
HotWater == [Water EXCEPT !.temperature = 35000]
HotAir == [Air EXCEPT !.temperature = 35000,
                      !.density = gasDensityAtPT(20000, 35000, 28970)]
ThermalFluids == {Water, WaterNoTemperature, HotWater, Air, HotAir}

\* Two boundary nodes with a junction between them
ThermalInputs ==
    {[nodes |-> <<BoundaryNode(1, pa), JunctionNode(2), BoundaryNode(3, pb)>>,
      pipes |-> <<ChainPipe(1, k1), ChainPipe(2, k2)>>, fluid |-> f] :
        pa \in PressureLevels, pb \in PressureLevels,
        k1 \in PipeKindsAt(1), k2 \in PipeKindsAt(2), f \in ThermalFluids}

InitThermal ==
    /\ \E in \in ThermalInputs :
         /\ nodes = in.nodes
         /\ pipes = in.pipes
         /\ fluid = in.fluid
    /\ Idle
    /\ returned = <<>>
    /\ NoDirectCall

NextThermal ==
    \/ Initialize
    \/ Iterate
    \/ BuildResults

SpecThermal == InitThermal /\ [][NextThermal]_vars

\* The call is past its initialisation
Initialized == pc \in {"iterate", "build", "done"}

\* C19: for a fluid that is not a gas every node's temperature is the
\* inlet temperature (fluid.temperature, 293.15 K when the fluid has none)
\* from the initialisation on, through every iteration and in the result,
\* whatever the node pressures.
C19_LiquidTemperatureUniform ==
    (Initialized /\ fluid.type /= "gas") =>
        LET T == IF fluid.temperature = 0 THEN 29315 ELSE fluid.temperature
        IN  /\ \A id \in NodeIds : temperatures[id] = T
            /\ Returned => \A id \in NodeIds : result.nodes[id].temperature = T

C19_Witness ==
    /\ Returned
    /\ fluid = WaterNoTemperature
    /\ iter > 1
    /\ result.success
    /\ result.nodes[2].pressure < result.nodes[1].pressure
    /\ result.nodes[3].pressure < result.nodes[2].pressure
    /\ \A id \in NodeIds : result.nodes[id].temperature = 29315

\* The isentropic temperature at the pressure P, from the inlet
TemperatureAt(P) ==
    isentropicTemperature(inletTemperature, inletPressure, P,
                          GammaNum(fluid), GammaDen(fluid))

\* C20: for a gas, the temperature returned for every node is the
\* isentropic temperature at the pressure returned for that node, from
\* the highest boundary pressure and the fluid's temperature, and the
\* density returned for it is the local density at that pressure and
\* temperature.
C20_ReportedTemperatureMatchesPressure ==
    (Returned /\ ArgumentsValid /\ fluid.type = "gas") =>
        \A id \in NodeIds :
            /\ result.nodes[id].temperature = TemperatureAt(result.nodes[id].pressure)
            /\ result.nodes[id].density =
                 getLocalFluidProperties(fluid, result.nodes[id].pressure,
                                         TemperatureAt(result.nodes[id].pressure)).density

\* The density of the gas at the pressure P and the temperature of P
DensityAt(P) == getLocalFluidProperties(fluid, P, TemperatureAt(P)).density

\* C20 as the program has it: for a gas, every iteration sets each node's
\* temperature to the isentropic temperature at the pressure the node has
\* when the iteration begins, and its density to the local density there;
\* the result returns the temperature and the density of the last
\* iteration. For a boundary node that pressure is the pressure returned;
\* for a junction the pressure returned is later by the last correction.
C20_TemperatureOfIterationPressure ==
    /\ [][(pc = "iterate" /\ fluid.type = "gas") =>
            \A id \in NodeIds :
                /\ temperatures'[id] = TemperatureAt(pressures[id])
                /\ localFluids'[id].density = DensityAt(pressures[id])]_vars
    /\ [](Returned /\ ArgumentsValid /\ fluid.type = "gas" =>
            \A id \in NodeIds :
                /\ result.nodes[id].temperature = temperatures[id]
                /\ result.nodes[id].density = localFluids[id].density
                /\ NodeById(id).type = "boundary" =>
                     /\ result.nodes[id].temperature
                          = TemperatureAt(result.nodes[id].pressure)
                     /\ result.nodes[id].density = DensityAt(result.nodes[id].pressure))

C20_Witness ==
    /\ Returned
    /\ fluid.type = "gas"
    /\ result.success
    /\ iter > 1
    /\ result.nodes[1].temperature = TemperatureAt(result.nodes[1].pressure)
    /\ result.nodes[3].temperature < result.nodes[1].temperature
    /\ result.nodes[2].temperature /= TemperatureAt(result.nodes[2].pressure)

\* ------------------------------------------------ pressures near the floor

FloorPressures == {50, 100, 150, 20000}
FloorPipeKinds == {"plain", "valve"}

\* Two boundary nodes with a junction between them, at low pressures too
FloorInputs ==
    {[nodes |-> <<BoundaryNode(1, pa), JunctionNode(2), BoundaryNode(3, pb)>>,
      pipes |-> <<ChainPipe(1, k1), ChainPipe(2, k2)>>, fluid |-> f] :
        pa \in FloorPressures, pb \in FloorPressures,
        k1 \in FloorPipeKinds, k2 \in FloorPipeKinds, f \in Fluids}

InitFloor ==
    /\ \E in \in FloorInputs :
         /\ nodes = in.nodes
         /\ pipes = in.pipes
         /\ fluid = in.fluid
    /\ Idle
    /\ returned = <<>>
    /\ NoDirectCall

SpecFloor == InitFloor /\ [][NextThermal]_vars

\* C21: a junction pressure that a correction step produces is at least
\* 100 Pa; when every boundary pressure is at least 100 Pa, every node
\* pressure is at least 100 Pa after the initialisation, after every
\* iteration and in the result.
C21_PressureFloor ==
    /\ [][pc = "iterate" =>
            \A n \in CorrectedNodes :
                JunctionStep(n, pressures, localFluids', flowRates', chokedStatus').corrected
                    => pressures'[n.id] >= 100]_vars
    /\ []((Initialized /\ \A i \in 1..Len(boundaryNodes) : boundaryNodes[i].pressure >= 100) =>
            \A id \in NodeIds :
                /\ pressures[id] >= 100
                /\ Returned => result.nodes[id].pressure >= 100)

\* The floor lifts a junction that started below it
C21_Witness ==
    /\ Initialized
    /\ iter > 0
    /\ avgPressure < 100
    /\ pressures[2] = 100

\* ------------------------------------------------ the junction correction

\* The pipes at the node id that choked marks as not choked
UnchokedAt(id, choked) == {c \in nodeConnections(id) : ~choked[c[1]].isChoked}

\* The signed sum of the flows at the node id
FlowSumAt(id, flows) ==
    SumOver(nodeConnections(id), [c \in nodeConnections(id) |-> flows[c[1]] * c[2]])

\* 1/(2 R |Q|) summed over the unchoked pipes at the node id, with the fixed
\* value for a pipe without flow
UnchokedSensitivityAt(id, lf, flows, choked) ==
    SumOver(UnchokedAt(id, choked),
            [c \in UnchokedAt(id, choked) |->
                IF Abs(flows[c[1]]) > 0
                THEN SensitivityTerm(pipeResistance(PipeById(c[1]), lf[id]), Abs(flows[c[1]]))
                ELSE ZeroFlowSensitivity])

\* C22: in every iteration the pressure of a junction with pipes is
\* corrected by -0.5 flowSum / dFlowdP with dFlowdP summed over the pipes
\* at the junction that the iteration did not flag choked (1/(2 R |Q|)
\* each, the fixed value for a pipe without flow); the choked pipes add
\* nothing to it, and with nothing in it the pressure is left alone.
C22_SensitivityOverUnchokedPipes ==
    [][pc = "iterate" =>
         \A n \in SeqToSet(internalNodes) :
             nodeConnections(n.id) /= {} =>
                 LET D == UnchokedSensitivityAt(n.id, localFluids', flowRates', chokedStatus')
                 IN  pressures'[n.id] =
                         IF D > 0
                         THEN Max(100, pressures[n.id]
                                         + Correction(FlowSumAt(n.id, flowRates'), D))
                         ELSE pressures[n.id]]_vars

\* A junction with a choked and an unchoked pipe has been corrected
C22_Witness ==
    /\ Initialized
    /\ iter = 1
    /\ chokedStatus[1].isChoked
    /\ ~chokedStatus[2].isChoked
    /\ flowRates[2] /= 0
    /\ pressures[2] /= avgPressure

\* The pipes at the node id that are unchoked and not closed: their
\* resistance, with the fluid at the node, is finite
OpenAt(id, lf, choked) ==
    {c \in UnchokedAt(id, choked) : pipeResistance(PipeById(c[1]), lf[id]) < Infinity}

\* 1/(2 R |Q|) summed over the open pipes at the node id
OpenSensitivityAt(id, lf, flows, choked) ==
    SumOver(OpenAt(id, lf, choked),
            [c \in OpenAt(id, lf, choked) |->
                IF Abs(flows[c[1]]) > 0
                THEN SensitivityTerm(pipeResistance(PipeById(c[1]), lf[id]), Abs(flows[c[1]]))
                ELSE ZeroFlowSensitivity])

\* A pipe at the node id is closed and without flow
ClosedPipeAt(id, lf, flows) ==
    \E c \in nodeConnections(id) :
        /\ pipeResistance(PipeById(c[1]), lf[id]) >= Infinity
        /\ flows[c[1]] = 0

\* C23: at a junction a pipe of infinite resistance and zero flow adds
\* nothing to dFlowdP, so the correction of the junction is the one its
\* other pipes give; and a liquid network with such a pipe at its junction
\* still returns success = true.
C23_ClosedPipeAddsNoSensitivity ==
    /\ [][pc = "iterate" =>
            \A n \in SeqToSet(internalNodes) :
                ClosedPipeAt(n.id, localFluids', flowRates') =>
                    LET D == OpenSensitivityAt(n.id, localFluids', flowRates', chokedStatus')
                    IN  pressures'[n.id] =
                            IF D > 0
                            THEN Max(100, pressures[n.id]
                                            + Correction(FlowSumAt(n.id, flowRates'), D))
                            ELSE pressures[n.id]]_vars
    /\ []((Returned /\ ArgumentsValid /\ ~isCompressible
             /\ \E n \in SeqToSet(internalNodes) :
                    ClosedPipeAt(n.id, localFluids, flowRates)) => result.success)

\* The junctions that have pipes
ConnectedJunctions == {n \in SeqToSet(internalNodes) : nodeConnections(n.id) /= {}}

\* C24 as claimed: an iteration never raises the pressure of a junction
\* with net outflow (flowSum > 0), never lowers that of a junction with
\* net inflow (flowSum < 0), and keeps that of a junction with flowSum = 0.
C24_CorrectionAgainstFlowSum ==
    [][pc = "iterate" =>
         \A n \in ConnectedJunctions :
             /\ FlowSumAt(n.id, flowRates') > 0 => pressures'[n.id] <= pressures[n.id]
             /\ FlowSumAt(n.id, flowRates') < 0 => pressures'[n.id] >= pressures[n.id]
             /\ FlowSumAt(n.id, flowRates') = 0 => pressures'[n.id] = pressures[n.id]]_vars

\* C24 as the program has it: the same for a junction whose pressure is at
\* least 100 Pa; a junction below 100 Pa is never lowered, and once it is
\* corrected it is at 100 Pa or above whatever its flowSum.
C24_CorrectionAgainstFlowSumAboveFloor ==
    [][pc = "iterate" =>
         \A n \in ConnectedJunctions :
             /\ pressures[n.id] >= 100 =>
                  /\ FlowSumAt(n.id, flowRates') > 0 => pressures'[n.id] <= pressures[n.id]
                  /\ FlowSumAt(n.id, flowRates') < 0 => pressures'[n.id] >= pressures[n.id]
                  /\ FlowSumAt(n.id, flowRates') = 0 => pressures'[n.id] = pressures[n.id]
             /\ pressures[n.id] < 100 =>
                  /\ pressures'[n.id] >= pressures[n.id]
                  /\ UnchokedAt(n.id, chokedStatus') /= {} => pressures'[n.id] >= 100]_vars

\* The first iteration found net outflow at the junction and lowered it
C24_Witness ==
    /\ Initialized
    /\ iter = 1
    /\ avgPressure >= 100
    /\ FlowSumAt(2, flowRates) > 0
    /\ pressures[2] < avgPressure

\* ------------------------------------------------ valves of every specMode

ValveOfCdDiameter(Cd, d) ==
    [NoValve EXCEPT !.present = TRUE, !.specMode = "cd_diameter", !.Cd = Cd, !.diameter = d]
ValveOfCdArea(Cd, a) ==
    [NoValve EXCEPT !.present = TRUE, !.specMode = "cd_area", !.Cd = Cd, !.area = a]

\* Cd given or left out, the flow area given, zero or left out; CdA and Cv
\* given or zero
ModeValves ==
    {ValveOfCdDiameter(Cd, d) : Cd \in {0, 80}, d \in {0, 5}}
        \cup {ValveOfCdArea(Cd, a) : Cd \in {0, 80}, a \in {0, 20}}
        \cup {ValveOfCdA(c) : c \in {0, 40}}
        \cup {ValveOfCv(cv) : cv \in {0, 10}}

\* Two boundary nodes joined by one pipe with a valve
ValveInputs ==
    {[nodes |-> <<BoundaryNode(1, pa), BoundaryNode(2, pb)>>,
      pipes |-> <<SinglePipe(len, v, NoOrifice)>>, fluid |-> f] :
        pa \in PipePressures, pb \in PipePressures, len \in PipeLengths,
        v \in ModeValves, f \in Fluids}

InitValves ==
    /\ \E in \in ValveInputs :
         /\ nodes = in.nodes
         /\ pipes = in.pipes
         /\ fluid = in.fluid
    /\ Idle
    /\ returned = <<>>
    /\ NoDirectCall

SpecValves == InitValves /\ [][NextThermal]_vars

\* The part of a pipe's resistance that is its valve's: the sum is
\* R_friction + R_valve + R_orifice
ValveResistance(pipe, localFluid) ==
    IF pipeResistance(pipe, localFluid) >= Infinity THEN Infinity
    ELSE pipeResistance(pipe, localFluid) - pipeResistance(WithoutValve(pipe), localFluid)

\* rho / (2 CdA^2), infinite for a CdA that is not positive
ResistanceOfValveCdA(pipe, localFluid) ==
    LET CdA == getValveCdA(pipe.valve, pipe.diameter, CircleArea(pipe.diameter))
    IN  IF CdA <= 0 THEN Infinity ELSE ResistanceOfCdA(CdA, localFluid)

ValveModes == {"cd_diameter", "cd_area", "cda", "cv"}

\* C25: for a valve of every specMode (cd_diameter, cd_area, cda, cv) the
\* resistance pipeResistance adds for the valve is rho / (2 CdA^2) with CdA
\* the value getValveCdA returns for the same valve
C25_ValveResistanceMatchesCdA ==
    \A i \in 1..Len(pipes) :
        (pipes[i].valve.present /\ pipes[i].valve.specMode \in ValveModes) =>
            \A id \in {pipes[i].fromNode, pipes[i].toNode} :
                (Initialized /\ iter > 0) =>
                    ValveResistance(pipes[i], localFluids[id])
                        = ResistanceOfValveCdA(pipes[i], localFluids[id])

\* A valve given by Cd whose flow area is missing or zero
CdWithoutArea(valve) ==
    /\ valve.present
    /\ valve.Cd > 0
    /\ \/ valve.specMode = "cd_area" /\ valve.area = 0
       \/ valve.specMode = "cd_diameter" /\ valve.diameter = 0

\* C26: a valve given Cd but no flow area (cd_area without area, cd_diameter
\* without diameter) has infinite resistance in pipeResistance: the pipe is
\* closed and carries no flow
C26_ValveWithoutAreaIsClosed ==
    (Initialized /\ iter > 0) =>
        \A i \in 1..Len(pipes) :
            CdWithoutArea(pipes[i].valve) =>
                /\ \A id \in {pipes[i].fromNode, pipes[i].toNode} :
                       pipeResistance(pipes[i], localFluids[id]) >= Infinity
                /\ flowRates[pipes[i].id] = 0

\* ------------------------------------------- pipes that name a missing node

\* An id that no node of the network has
MissingId == MaxNodes + 1

\* Pipe k of a chain, either end possibly naming the missing node
LoosePipes(k) ==
    {[ChainPipe(k, "plain") EXCEPT !.fromNode = from, !.toNode = to] :
        from \in {k, MissingId}, to \in {k + 1, MissingId}}

LooseChains(n) ==
    UNION {{p \in [1..m -> UNION {LoosePipes(k) : k \in 1..m}] :
                \A k \in 1..m : p[k] \in LoosePipes(k)} : m \in 0..MaxPipesOf(n)}

InitLoose ==
    /\ \E n \in 0..MaxNodes :
         /\ nodes \in ChainNodes(n)
         /\ pipes \in LooseChains(n)
    /\ fluid \in Fluids
    /\ Idle
    /\ returned = <<>>
    /\ NoDirectCall

NextLoose ==
    \/ ReturnTooSmall
    \/ ReturnNoBoundary
    \/ ThrowTypeError
    \/ Initialize
    \/ Iterate
    \/ BuildResults

SpecLoose == InitLoose /\ [][NextLoose]_vars

\* The call has ended with an exception
Thrown == pc = "thrown"

\* C27: solveNetwork never throws: a malformed topology, a pipe whose
\* fromNode or toNode is the id of no node included, is reported by a returned
\* result with success = false and an error message
C27_MalformedIsReported ==
    /\ ~Thrown
    /\ (Returned /\ (TooSmall \/ NoBoundary \/ Dangling)) =>
           /\ result.success = FALSE
           /\ "error" \in DOMAIN result

\* ------------------------------------------------------- the flow regimes

FlowRegimes == {"no_flow", "choked_gas", "subsonic_gas", "choked_liquid", "incompressible"}
ChokedRegimes == {"choked_gas", "choked_liquid"}

\* hasRestriction: a valve whose specMode resolves to a CdA, or an orifice
\* given by a positive diameter
HasRestriction(pipe) ==
    \/ getValveCdA(pipe.valve, pipe.diameter, CircleArea(pipe.diameter)) /= NullCdA
    \/ pipe.orifice.present /\ pipe.orifice.diameter > 0

\* C28: in every result of a call that passed validation each pipe's
\* flowRegime is one of no_flow, choked_gas, subsonic_gas, choked_liquid and
\* incompressible (never unknown), isChoked holds exactly for the two choked
\* regimes, and only a pipe with a valve of resolved specMode or an orifice
\* of positive diameter is choked
C28_FlowRegimes ==
    (Returned /\ ArgumentsValid) =>
        \A i \in 1..Len(pipes) :
            LET r == result.pipes[pipes[i].id]
            IN  /\ r.flowRegime \in FlowRegimes
                /\ r.isChoked <=> r.flowRegime \in ChokedRegimes
                /\ r.isChoked => HasRestriction(pipes[i])

C28_Witness ==
    /\ Returned
    /\ ArgumentsValid
    /\ result.pipes[1].isChoked
    /\ result.pipes[1].flowRegime = "choked_liquid"
    /\ ~pipes[1].valve.present
    /\ pipes[1].orifice.diameter > 0

\* ------------------------------------------------------ App.jsx: the editor

\* The editor's node counter stops here
MaxAdded == 2
\* The editor's component counter stops here
MaxComponents == 1
\* The values that differ at a time from what the editor sets by itself
MaxEdited == 1

\* useState('select'): the modes of the toolbar
Modes == {"select", "addBoundary", "addJunction", "connect", "addValve", "addOrifice"}

\* pressure: type === 'boundary' ? 100000 : 0, scaled into the range of the
\* fixed-point arithmetic, and a second value to type in
DefaultNodePressure == 20000
EditorPressures == {DefaultNodePressure, 3000}
\* x of a node where the click placed it (0) and dragged away
Positions == {0, 1}
EditorTemperatures == {29315, 35000}
\* useState(101325), scaled likewise, and a second system pressure
SystemPressures == {20000, 10000}

AppNodeIds == {app.nodes[i].id : i \in 1..Len(app.nodes)}
AppPipeIds == {app.pipes[i].id : i \in 1..Len(app.pipes)}
AppComponentIds == {app.components[i].id : i \in 1..Len(app.components)}
AppPipe(id) == CHOOSE p \in SeqToSet(app.pipes) : p.id = id
AppComponent(id) == CHOOSE c \in SeqToSet(app.components) : c.id = id

\* Date.now() at a later moment than every id in use
LaterThan(ids) == IF ids = {} THEN 1 ELSE 1 + MaxOver(ids, [i \in ids |-> i])
PipeIdNow ==
    LaterThan(AppPipeIds \cup {app.components[i].pipeId : i \in 1..Len(app.components)})

\* The handlers run while no solve is under way (a handler runs to its end)
AppIdle == ~app.solving

addNode(a, x, type) ==
    [a EXCEPT !.nodeCounter = a.nodeCounter + 1,
              !.nodes = Append(a.nodes,
                               [id |-> a.nodeCounter + 1, x |-> x, type |-> type,
                                pressure |-> IF type = "boundary"
                                             THEN DefaultNodePressure ELSE 0]),
              !.results = NullResults]

updateNodePosition(a, id, x) ==
    [a EXCEPT !.nodes = [i \in 1..Len(a.nodes) |->
                            IF a.nodes[i].id = id THEN [a.nodes[i] EXCEPT !.x = x]
                                                  ELSE a.nodes[i]]]

\* updateNodePressure without its setResults(null)
updateNodePressure_KeepsResults(a, id, pressure) ==
    [a EXCEPT !.nodes = [i \in 1..Len(a.nodes) |->
                            IF a.nodes[i].id = id
                            THEN [a.nodes[i] EXCEPT !.pressure = pressure]
                            ELSE a.nodes[i]]]

updateNodePressure(a, id, pressure) ==
    [a EXCEPT !.nodes = [i \in 1..Len(a.nodes) |->
                            IF a.nodes[i].id = id
                            THEN [a.nodes[i] EXCEPT !.pressure = pressure]
                            ELSE a.nodes[i]],
              !.results = NullResults]

deleteNode(a, id) ==
    LET deletedPipeIds ==
            {p.id : p \in {q \in SeqToSet(a.pipes) : q.fromNode = id \/ q.toNode = id}}
    IN  [a EXCEPT !.nodes = SelectSeq(a.nodes, LAMBDA n : n.id /= id),
                  !.pipes = SelectSeq(a.pipes,
                                      LAMBDA p : p.fromNode /= id /\ p.toNode /= id),
                  !.components = SelectSeq(a.components,
                                           LAMBDA c : c.pipeId \notin deletedPipeIds),
                  !.selectedId = 0,
                  !.selectedType = "none",
                  !.results = NullResults]

addPipe(a, fromId, toId, now) ==
    LET exists == \E i \in 1..Len(a.pipes) :
                      \/ a.pipes[i].fromNode = fromId /\ a.pipes[i].toNode = toId
                      \/ a.pipes[i].fromNode = toId /\ a.pipes[i].toNode = fromId
    IN  IF exists \/ fromId = toId THEN a
        ELSE [a EXCEPT !.pipes = Append(a.pipes,
                                        [id |-> now, fromNode |-> fromId, toNode |-> toId,
                                         diameter |-> 10, length |-> 1000]),
                       !.results = NullResults]

updatePipe(a, id, length) ==
    [a EXCEPT !.pipes = [i \in 1..Len(a.pipes) |->
                            IF a.pipes[i].id = id THEN [a.pipes[i] EXCEPT !.length = length]
                                                  ELSE a.pipes[i]],
              !.results = NullResults]

deletePipe(a, id) ==
    [a EXCEPT !.pipes = SelectSeq(a.pipes, LAMBDA p : p.id /= id),
              !.components = SelectSeq(a.components, LAMBDA c : c.pipeId /= id),
              !.selectedId = 0,
              !.selectedType = "none",
              !.results = NullResults]

\* pipe?.diameter || 0.1
PipeDiameterOf(a, pipeId) ==
    IF \E i \in 1..Len(a.pipes) : a.pipes[i].id = pipeId
    THEN (CHOOSE p \in SeqToSet(a.pipes) : p.id = pipeId).diameter
    ELSE 10

addComponent(a, pipeId, type) ==
    LET pipeDiameter == PipeDiameterOf(a, pipeId)
        pipeArea == CircleArea(pipeDiameter)
        newComponent ==
            [id |-> a.componentCounter + 1,
             pipeId |-> pipeId,
             type |-> type,
             specMode |-> IF type = "valve" THEN "cd_diameter" ELSE "",
             Cd |-> IF type = "valve" THEN 95 ELSE DefaultCd,
             valveDiameter |-> IF type = "valve" THEN pipeDiameter ELSE 0,
             valveArea |-> IF type = "valve" THEN pipeArea ELSE 0,
             CdA |-> IF type = "valve" THEN CdTimesArea(95, pipeArea) ELSE 0,
             Cv |-> IF type = "valve" THEN 1000 ELSE 0,
             orificeDiameter |-> IF type = "orifice" THEN pipeDiameter \div 2 ELSE 0]
    IN  [a EXCEPT !.componentCounter = a.componentCounter + 1,
                  !.components = Append(a.components, newComponent),
                  !.selectedId = newComponent.id,
                  !.selectedType = "component",
                  !.results = NullResults,
                  !.mode = "select"]

\* { ...comp, ...updates }
updateComponent(a, id, updates) ==
    [a EXCEPT !.components =
                  [i \in 1..Len(a.components) |->
                      IF a.components[i].id = id
                      THEN [f \in DOMAIN a.components[i] |->
                               IF f \in DOMAIN updates THEN updates[f]
                                                       ELSE a.components[i][f]]
                      ELSE a.components[i]],
              !.results = NullResults]

deleteComponent(a, id) ==
    [a EXCEPT !.components = SelectSeq(a.components, LAMBDA c : c.id /= id),
              !.selectedId = 0,
              !.selectedType = "none",
              !.results = NullResults]

handleCanvasClick(a, x) ==
    IF a.mode = "addBoundary" THEN [addNode(a, x, "boundary") EXCEPT !.mode = "select"]
    ELSE IF a.mode = "addJunction" THEN [addNode(a, x, "junction") EXCEPT !.mode = "select"]
    ELSE IF a.mode \in {"connect", "addValve", "addOrifice"}
    THEN [a EXCEPT !.connectingFrom = 0, !.mode = "select"]
    ELSE [a EXCEPT !.selectedId = 0, !.selectedType = "none"]

handleNodeClick(a, nodeId, now) ==
    IF a.mode = "connect"
    THEN IF a.connectingFrom /= 0 /\ a.connectingFrom /= nodeId
         THEN [addPipe(a, a.connectingFrom, nodeId, now) EXCEPT !.connectingFrom = 0,
                                                                 !.mode = "select"]
         ELSE [a EXCEPT !.connectingFrom = nodeId]
    ELSE [a EXCEPT !.selectedId = nodeId, !.selectedType = "node"]

handlePipeClick(a, pipeId) ==
    IF a.mode = "addValve" THEN addComponent(a, pipeId, "valve")
    ELSE IF a.mode = "addOrifice" THEN addComponent(a, pipeId, "orifice")
    ELSE IF a.mode = "select" THEN [a EXCEPT !.selectedId = pipeId, !.selectedType = "pipe"]
    ELSE a

handleComponentClick(a, componentId) ==
    IF a.mode = "select"
    THEN [a EXCEPT !.selectedId = componentId, !.selectedType = "component"]
    ELSE a

startConnect(a, nodeId) == [a EXCEPT !.connectingFrom = nodeId, !.mode = "connect"]

\* Cv * 7.599e-7 in area units, Cv in 1/10
getEffectiveCdA(v, pipe) ==
    IF v.specMode = "cd_diameter"
    THEN CdTimesArea(IF v.Cd = 0 THEN DefaultCd ELSE v.Cd,
                     CircleArea(IF v.valveDiameter = 0 THEN pipe.diameter
                                                       ELSE v.valveDiameter))
    ELSE IF v.specMode = "cd_area"
    THEN CdTimesArea(IF v.Cd = 0 THEN DefaultCd ELSE v.Cd,
                     IF v.valveArea = 0 THEN CircleArea(pipe.diameter) ELSE v.valveArea)
    ELSE IF v.specMode = "cda" THEN v.CdA
    ELSE IF v.specMode = "cv" THEN (v.Cv * CvToSI) \div 10^5
    ELSE Infinity

\* valves.reduce((min, v) => getEffectiveCdA(v) < getEffectiveCdA(min) ? v : min,
\* valves[0]) over the first k valves
RECURSIVE MostRestrictiveValve(_, _, _)
MostRestrictiveValve(valves, pipe, k) ==
    IF k <= 1 THEN valves[1]
    ELSE LET min == MostRestrictiveValve(valves, pipe, k - 1)
         IN  IF getEffectiveCdA(valves[k], pipe) < getEffectiveCdA(min, pipe)
             THEN valves[k] ELSE min

RECURSIVE MostRestrictiveOrifice(_, _)
MostRestrictiveOrifice(orifices, k) ==
    IF k <= 1 THEN orifices[1]
    ELSE LET min == MostRestrictiveOrifice(orifices, k - 1)
         IN  IF orifices[k].orificeDiameter < min.orificeDiameter THEN orifices[k] ELSE min

getPipesForSolver(a) ==
    [i \in 1..Len(a.pipes) |->
        LET pipe == a.pipes[i]
            valves == SelectSeq(a.components,
                                LAMBDA c : c.pipeId = pipe.id /\ c.type = "valve")
            orifices == SelectSeq(a.components,
                                  LAMBDA c : c.pipeId = pipe.id /\ c.type = "orifice")
            v == MostRestrictiveValve(valves, pipe, Len(valves))
            o == MostRestrictiveOrifice(orifices, Len(orifices))
        IN  [id |-> pipe.id, fromNode |-> pipe.fromNode, toNode |-> pipe.toNode,
             diameter |-> pipe.diameter, length |-> pipe.length,
             valve |-> IF Len(valves) > 0
                       THEN [present |-> TRUE, specMode |-> v.specMode, Cd |-> v.Cd,
                             diameter |-> v.valveDiameter, area |-> v.valveArea,
                             CdA |-> v.CdA, Cv |-> v.Cv]
                       ELSE [NoValve EXCEPT !.present = TRUE, !.specMode = "none"],
             orifice |-> IF Len(orifices) > 0
                         THEN [present |-> TRUE, diameter |-> o.orificeDiameter,
                               ratio |-> 0, Cd |-> o.Cd]
                         ELSE [present |-> TRUE, diameter |-> 0, ratio |-> 0,
                               Cd |-> DefaultCd]]]

\* getFluidProperties(selectedFluid, temperature + 273.15, pressure)
computedFluid(a) ==
    IF a.selectedFluid = "air"
    THEN [Air EXCEPT !.temperature = a.temperature,
                     !.pressure = a.pressure,
                     !.density = gasDensityAtPT(a.pressure, a.temperature,
                                                Air.molecularWeight)]
    ELSE [Water EXCEPT !.temperature = a.temperature, !.pressure = a.pressure]

\* The nodes as solveNetwork reads them: it looks at id, type and pressure
SolverNodes(a) ==
    [i \in 1..Len(a.nodes) |->
        [id |-> a.nodes[i].id, type |-> a.nodes[i].type, pressure |-> a.nodes[i].pressure]]

SolverArguments(a) ==
    [nodes |-> SolverNodes(a), pipes |-> getPipesForSolver(a), fluid |-> computedFluid(a)]

\* What a call of solveNetwork works on
solverVars == <<nodes, pipes, fluid, pc, iter, pressures, temperatures, localFluids,
                flowRates, chokedStatus, maxError, converged, result>>

\* resultsFor remembers the arguments of the call that returned the results
\* on display, for as long as they are on display
Shown(a) == IF a.results = NullResults THEN [a EXCEPT !.resultsFor = NullResults] ELSE a

\* The values typed or dragged away from what the editor sets by itself
Edited(a) ==
    Cardinality({i \in 1..Len(a.nodes) : a.nodes[i].x /= 0})
        + Cardinality({i \in 1..Len(a.nodes) :
                          a.nodes[i].type = "boundary"
                              /\ a.nodes[i].pressure /= DefaultNodePressure})
        + Cardinality({i \in 1..Len(a.pipes) : a.pipes[i].length /= 1000})
        + Cardinality({i \in 1..Len(a.components) :
                          \/ a.components[i].type = "valve"
                                /\ a.components[i].specMode /= "cd_diameter"
                          \/ a.components[i].type = "orifice"
                                /\ a.components[i].orificeDiameter /= 5})
        + (IF a.temperature /= InitialApp.temperature THEN 1 ELSE 0)
        + (IF a.pressure /= InitialApp.pressure THEN 1 ELSE 0)

\* A handler of the editor runs: the state of App becomes a, with at most
\* MaxEdited values edited at a time
Handled(a) ==
    /\ AppIdle
    /\ Edited(a) <= MaxEdited
    /\ app' = Shown(a)
    /\ UNCHANGED <<solverVars, returned, call, ret>>

SelectedNode == app.selectedType = "node" /\ app.selectedId \in AppNodeIds
SelectedPipe == app.selectedType = "pipe" /\ app.selectedId \in AppPipeIds
SelectedComponent == app.selectedType = "component" /\ app.selectedId \in AppComponentIds
AppNode(id) == CHOOSE n \in SeqToSet(app.nodes) : n.id = id

\* Canvas.jsx draws a pipe, and a component on it, when both its nodes exist
DrawnPipes ==
    {p.id : p \in {q \in SeqToSet(app.pipes) :
                      q.fromNode \in AppNodeIds /\ q.toNode \in AppNodeIds}}
DrawnComponents ==
    {c.id : c \in {d \in SeqToSet(app.components) : d.pipeId \in DrawnPipes}}

\* The toolbar's mode buttons
SetMode ==
    /\ AppIdle
    /\ \E m \in Modes : Handled([app EXCEPT !.mode = m])

\* A click on the canvas (or Escape); a node is added while the counter
\* allows
CanvasClick ==
    /\ app.mode \in {"addBoundary", "addJunction"} => app.nodeCounter < MaxAdded
    /\ Handled(handleCanvasClick(app, 0))

NodeClick == \E id \in AppNodeIds : Handled(handleNodeClick(app, id, PipeIdNow))

\* Mouse down on a node in select mode and a move: the node is selected and
\* dragged
NodeDrag ==
    /\ app.mode = "select"
    /\ \E id \in AppNodeIds : \E x \in Positions :
           Handled(updateNodePosition(handleNodeClick(app, id, PipeIdNow), id, x))

NodeDoubleClick == \E id \in AppNodeIds : Handled(startConnect(app, id))

PipeClick ==
    /\ app.mode \in {"addValve", "addOrifice"} => app.componentCounter < MaxComponents
    /\ \E id \in DrawnPipes : Handled(handlePipeClick(app, id))

ComponentClick == \E id \in DrawnComponents : Handled(handleComponentClick(app, id))

\* The properties panel of the selected node, pipe or component
NodePressureField ==
    /\ SelectedNode
    /\ AppNode(app.selectedId).type = "boundary"
    /\ \E p \in EditorPressures : Handled(updateNodePressure(app, app.selectedId, p))

DeleteNodeButton == SelectedNode /\ Handled(deleteNode(app, app.selectedId))

PipeLengthField ==
    /\ SelectedPipe
    /\ \E len \in PipeLengths : Handled(updatePipe(app, app.selectedId, len))

DeletePipeButton == SelectedPipe /\ Handled(deletePipe(app, app.selectedId))

ComponentUpdates(type) ==
    IF type = "valve" THEN {[specMode |-> m] : m \in {"cd_diameter", "cda"}}
    ELSE {[orificeDiameter |-> d] : d \in {5, 2}}

ComponentField ==
    /\ SelectedComponent
    /\ \E u \in ComponentUpdates(AppComponent(app.selectedId).type) :
           Handled(updateComponent(app, app.selectedId, u))

DeleteComponentButton == SelectedComponent /\ Handled(deleteComponent(app, app.selectedId))

\* The fluid panel; the default temperature of both fluids is Tref = 293.15 K
FluidSelect ==
    /\ AppIdle
    /\ \E f \in {"water", "air"} :
           Handled([app EXCEPT !.selectedFluid = f, !.temperature = 29315,
                               !.results = NullResults])

TemperatureField ==
    /\ AppIdle
    /\ \E t \in EditorTemperatures :
           Handled([app EXCEPT !.temperature = t, !.results = NullResults])

SystemPressureField ==
    /\ computedFluid(app).type = "gas"
    /\ \E p \in SystemPressures :
           Handled([app EXCEPT !.pressure = p, !.results = NullResults])

clearAll(a) ==
    [a EXCEPT !.nodes = <<>>, !.pipes = <<>>, !.components = <<>>,
              !.selectedId = 0, !.selectedType = "none", !.connectingFrom = 0,
              !.results = NullResults, !.nodeCounter = 0, !.componentCounter = 0]

ClearAll ==
    /\ AppIdle
    /\ Handled(clearAll(app))

\* The toolbar's Solve button, enabled by canSolve: solveNetwork is called
\* with the nodes, the pipes with their components and the computed fluid
canSolve == Len(app.nodes) >= 2 /\ Len(app.pipes) >= 1

RunSolver ==
    /\ AppIdle
    /\ canSolve
    /\ nodes' = SolverNodes(app)
    /\ pipes' = getPipesForSolver(app)
    /\ fluid' = computedFluid(app)
    /\ pc' = "start"
    /\ app' = [app EXCEPT !.solving = TRUE]
    /\ UNCHANGED <<iter, pressures, temperatures, localFluids, flowRates, chokedStatus,
                   maxError, converged, result, returned, call, ret>>

\* The working state of a call is gone when the call ends
CallEnds ==
    /\ nodes' = <<>>
    /\ pipes' = <<>>
    /\ fluid' = Water
    /\ pc' = "start"
    /\ iter' = 0
    /\ pressures' = <<>>
    /\ temperatures' = <<>>
    /\ localFluids' = <<>>
    /\ flowRates' = <<>>
    /\ chokedStatus' = <<>>
    /\ maxError' = 0
    /\ converged' = FALSE
    /\ result' = [pending |-> TRUE]

\* The call has run up to the node connectivity: it goes on with its loop,
\* or a pipe that names a missing node ends it with the TypeError
SolverStarts == IF Dangling THEN ThrowTypeError ELSE Initialize

\* runSolver ends: setResults(result) after a return, and nothing after the
\* TypeError, which leaves runSolver before setResults
RunEnds ==
    /\ app.solving
    /\ pc \in {"done", "thrown"}
    /\ app' = IF pc = "done"
              THEN [app EXCEPT !.results = result,
                               !.resultsFor = [nodes |-> nodes, pipes |-> pipes,
                                               fluid |-> fluid],
                               !.solving = FALSE]
              ELSE [app EXCEPT !.solving = FALSE]
    /\ CallEnds
    /\ UNCHANGED <<returned, call, ret>>

InitEditor ==
    /\ nodes = <<>>
    /\ pipes = <<>>
    /\ fluid = Water
    /\ Idle
    /\ returned = <<>>
    /\ NoDirectCall

NextEditor ==
    \/ SetMode
    \/ CanvasClick
    \/ NodeClick
    \/ NodeDrag
    \/ NodeDoubleClick
    \/ PipeClick
    \/ ComponentClick
    \/ NodePressureField
    \/ DeleteNodeButton
    \/ PipeLengthField
    \/ DeletePipeButton
    \/ ComponentField
    \/ DeleteComponentButton
    \/ FluidSelect
    \/ TemperatureField
    \/ SystemPressureField
    \/ ClearAll
    \/ RunSolver
    \/ app.solving /\ ReturnNoBoundary
    \/ app.solving /\ SolverStarts
    \/ app.solving /\ Iterate
    \/ app.solving /\ BuildResults
    \/ RunEnds

SpecEditor == InitEditor /\ [][NextEditor]_vars

\* C29: after any sequence of the user's actions every pipe's fromNode and
\* toNode are the ids of two distinct existing nodes, no two pipes join the
\* same pair of nodes, and every component's pipeId is the id of an existing
\* pipe
C29_EditorTopology ==
    /\ \A i \in 1..Len(app.pipes) :
           /\ app.pipes[i].fromNode \in AppNodeIds
           /\ app.pipes[i].toNode \in AppNodeIds
           /\ app.pipes[i].fromNode /= app.pipes[i].toNode
    /\ \A i, j \in 1..Len(app.pipes) :
           i /= j => {app.pipes[i].fromNode, app.pipes[i].toNode}
                         /= {app.pipes[j].fromNode, app.pipes[j].toNode}
    /\ \A i \in 1..Len(app.components) : app.components[i].pipeId \in AppPipeIds

\* C30: the results on display are never stale: while results is not null it
\* is what solveNetwork returned for the nodes, pipes, components and fluid
\* settings as they are now (the arguments of that call are the arguments a
\* call would get now, and a call made now returns the same results); moving
\* a node is the only edit that keeps the results
C30_ResultsNeverStale ==
    /\ [](app.results /= NullResults => app.resultsFor = SolverArguments(app))
    /\ [][(app.solving /\ pc = "done" /\ ~app'.solving /\ app.results /= NullResults)
              => app'.results = app.results]_vars

C30_Witness ==
    /\ app.results /= NullResults
    /\ app.results.success = TRUE
    /\ \E i \in 1..Len(app.nodes) : app.nodes[i].x /= 0
    /\ app.resultsFor.pipes[1].valve.specMode = "cd_diameter"

=============================================================================
